---------------------------- MODULE Spec2Model ----------------------------
(***************************************************************************)
(* A model of check_changes.py: the change detector that hashes the       *)
(* monitored worksheets of a spreadsheet, compares the hash with the one   *)
(* kept in last_source_hash.json and posts a Google Chat notification when *)
(* they differ.                                                            *)
(*                                                                         *)
(* Python str values are TLA+ strings (SubSeq, Len and \o act on them      *)
(* character by character); a Python value that may be None is a tagged    *)
(* record, so that None and a str can be compared.                         *)
(***************************************************************************)
EXTENDS Integers, Sequences, FiniteSets, TLC

(***************************************************************************)
(* Python values                                                           *)
(***************************************************************************)
None == [t |-> "None"]

PyStr(s) == [t |-> "str", v |-> s]

\* Python truthiness of an Optional[str]: `not x`
Falsy(x) == x.t = "None" \/ (x.t = "str" /\ x.v = "")

(***************************************************************************)
(* Characters                                                              *)
(***************************************************************************)
\* The printable ASCII characters 32..126, in code order, but for the
\* double quote (34), the backslash (92) and the backquote (96), which
\* Ord and Chr handle apart.
AsciiFrom32 == " !"
AsciiFrom35 == "#$%&'()*+,-./0123456789:;<=>?@ABCDEFGHIJKLMNOPQRSTUVWXYZ["
AsciiFrom93 == "]^_"
AsciiFrom97 == "abcdefghijklmnopqrstuvwxyz{|}~"

\* A character the tables above do not hold (a control character, or one
\* that is no ASCII character) once decoded from bytes.
OtherChar == "é"

At(s, i) == IF i >= 1 /\ i <= Len(s) THEN SubSeq(s, i, i) ELSE ""

\* s[i-1:j] of Python: the characters i..j that s has
Slice(s, i, j) ==
    IF i > Len(s) \/ j < i THEN ""
    ELSE SubSeq(s, i, IF j > Len(s) THEN Len(s) ELSE j)

\* the first index of character c in tab from index i on, 0 when there is none
IndexIn(c, tab, i) ==
    IF \E k \in i..Len(tab) : At(tab, k) = c
    THEN CHOOSE k \in i..Len(tab) :
            At(tab, k) = c /\ \A m \in i..(k - 1) : At(tab, m) # c
    ELSE 0

\* ''.join(f[lo..hi]) of strings
RECURSIVE Cat(_, _, _)
Cat(f, lo, hi) ==
    IF lo > hi THEN ""
    ELSE IF lo = hi THEN f[lo]
    ELSE Cat(f, lo, (lo + hi) \div 2) \o Cat(f, ((lo + hi) \div 2) + 1, hi)

\* the sequences f[lo..hi] one after the other
RECURSIVE CatSeq(_, _, _)
CatSeq(f, lo, hi) ==
    IF lo > hi THEN <<>>
    ELSE IF lo = hi THEN f[lo]
    ELSE CatSeq(f, lo, (lo + hi) \div 2) \o CatSeq(f, ((lo + hi) \div 2) + 1, hi)

Ord(c) ==
    IF c = "\t" THEN 9
    ELSE IF c = "\n" THEN 10
    ELSE IF c = "\f" THEN 12
    ELSE IF c = "\r" THEN 13
    ELSE IF c = "\"" THEN 34
    ELSE IF c = "\\" THEN 92
    ELSE IF IndexIn(c, AsciiFrom32, 1) > 0 THEN 31 + IndexIn(c, AsciiFrom32, 1)
    ELSE IF IndexIn(c, AsciiFrom35, 1) > 0 THEN 34 + IndexIn(c, AsciiFrom35, 1)
    ELSE IF IndexIn(c, AsciiFrom93, 1) > 0 THEN 92 + IndexIn(c, AsciiFrom93, 1)
    ELSE IF IndexIn(c, AsciiFrom97, 1) > 0 THEN 96 + IndexIn(c, AsciiFrom97, 1)
    ELSE 0

\* chr(n) for a code 0..127; OtherChar where the tables hold no character
Chr(n) ==
    IF n = 9 THEN "\t"
    ELSE IF n = 10 THEN "\n"
    ELSE IF n = 12 THEN "\f"
    ELSE IF n = 13 THEN "\r"
    ELSE IF n = 34 THEN "\""
    ELSE IF n = 92 THEN "\\"
    ELSE IF n >= 32 /\ n <= 33 THEN At(AsciiFrom32, n - 31)
    ELSE IF n >= 35 /\ n <= 91 THEN At(AsciiFrom35, n - 34)
    ELSE IF n >= 93 /\ n <= 95 THEN At(AsciiFrom93, n - 92)
    ELSE IF n >= 97 /\ n <= 126 THEN At(AsciiFrom97, n - 96)
    ELSE OtherChar

IsAscii(c) == Ord(c) > 0

\* str.isspace() on the characters of the model
PyWhitespace == {" ", "\t", "\n", "\r", "\f"}

(***************************************************************************)
(* str methods                                                             *)
(***************************************************************************)
RECURSIVE LStrip(_)
LStrip(s) ==
    IF Len(s) > 0 /\ At(s, 1) \in PyWhitespace
    THEN LStrip(SubSeq(s, 2, Len(s)))
    ELSE s

RECURSIVE RStrip(_)
RStrip(s) ==
    IF Len(s) > 0 /\ At(s, Len(s)) \in PyWhitespace
    THEN RStrip(SubSeq(s, 1, Len(s) - 1))
    ELSE s

\* s.strip()
Strip(s) == RStrip(LStrip(s))

\* s.startswith(c), s.endswith(c) for a single character c
StartsWith(s, c) == Len(s) > 0 /\ At(s, 1) = c

EndsWith(s, c) == Len(s) > 0 /\ At(s, Len(s)) = c

\* ''.join(s.split()): s without its whitespace characters
RemoveWhitespace(s) ==
    Cat([i \in 1..Len(s) |->
            IF At(s, i) \in PyWhitespace THEN "" ELSE At(s, i)], 1, Len(s))

\* s.split(','): the pieces between the commas, at least one
RECURSIVE SplitComma(_, _, _)
SplitComma(s, i, piece) ==
    IF i > Len(s) THEN <<piece>>
    ELSE IF At(s, i) = "," THEN <<piece>> \o SplitComma(s, i + 1, "")
    ELSE SplitComma(s, i + 1, piece \o At(s, i))

\* ', '.join(names)
RECURSIVE JoinCommaSpace(_)
JoinCommaSpace(names) ==
    IF Len(names) = 0 THEN ""
    ELSE IF Len(names) = 1 THEN names[1]
    ELSE names[1] \o ", " \o JoinCommaSpace(Tail(names))

ConcatAll(parts) == Cat(parts, 1, Len(parts))

(***************************************************************************)
(* json.loads                                                              *)
(*                                                                         *)
(* A JSON value is a tagged record: None (null), "bool", "num" (v is the   *)
(* literal's text), "str", "list" (v a sequence) and "dict" (v a function  *)
(* from the keys).  A scan returns [ok, val, pos]: pos is the index after  *)
(* the value.                                                              *)
(***************************************************************************)
JSONDecodeError == [t |-> "JSONDecodeError"]

ScanFail == [ok |-> FALSE]

ScanOk(val, pos) == [ok |-> TRUE, val |-> val, pos |-> pos]

\* json.decoder.WHITESPACE
JsonWhitespace == {" ", "\t", "\n", "\r"}

Digits == {"0", "1", "2", "3", "4", "5", "6", "7", "8", "9"}

HexDigits == "0123456789abcdef"

RECURSIVE SkipWs(_, _)
SkipWs(s, i) == IF At(s, i) \in JsonWhitespace THEN SkipWs(s, i + 1) ELSE i

RECURSIVE SkipDigits(_, _)
SkipDigits(s, i) == IF At(s, i) \in Digits THEN SkipDigits(s, i + 1) ELSE i

HasPrefix(s, i, word) == Slice(s, i, i + Len(word) - 1) = word

\* json.scanner.NUMBER_RE: (-?(?:0|[1-9]\d*))(\.\d+)?([eE][-+]?\d+)?
\* the index after the match, or 0 when there is none
NumberEnd(s, i) ==
    LET Exponent(fracEnd, e) ==
            IF fracEnd > 0 /\ At(s, fracEnd) \in {"e", "E"} /\ At(s, e) \in Digits
            THEN SkipDigits(s, e)
            ELSE fracEnd
        Fraction(fracEnd) ==
            Exponent(fracEnd, IF At(s, fracEnd + 1) \in {"+", "-"}
                              THEN fracEnd + 2 ELSE fracEnd + 1)
        Integer(intEnd) ==
            Fraction(IF intEnd > 0 /\ At(s, intEnd) = "." /\ At(s, intEnd + 1) \in Digits
                     THEN SkipDigits(s, intEnd + 1)
                     ELSE intEnd)
        Sign(d) ==
            Integer(IF At(s, d) = "0" THEN d + 1
                    ELSE IF At(s, d) \in Digits THEN SkipDigits(s, d)
                    ELSE 0)
    IN  Sign(IF At(s, i) = "-" THEN i + 1 ELSE i)

\* the character a backslash escape stands for ("" when it is no escape)
Unescape(e) ==
    IF e \in {"\"", "\\", "/"} THEN e
    ELSE IF e = "n" THEN "\n"
    ELSE IF e = "t" THEN "\t"
    ELSE IF e = "r" THEN "\r"
    ELSE IF e = "f" THEN "\f"
    ELSE IF e = "b" THEN OtherChar  \* a character outside the tables
    ELSE ""

HexValue(c) ==
    LET Value(lower, upper) ==
            IF lower > 0 THEN lower - 1
            ELSE IF upper > 0 THEN 9 + upper
            ELSE 0 - 1
    IN  Value(IndexIn(c, HexDigits, 1), IndexIn(c, "ABCDEF", 1))

\* the character of a \uXXXX escape at s[i..i+3] ("" when it is malformed)
UnicodeEscape(s, i) ==
    LET Escape(h) ==
            IF \E k \in 1..4 : h[k] < 0 THEN ""
            ELSE IF 4096 * h[1] + 256 * h[2] + 16 * h[3] + h[4] < 128
                 THEN Chr(4096 * h[1] + 256 * h[2] + 16 * h[3] + h[4])
                 ELSE OtherChar
    IN  Escape([k \in 1..4 |-> HexValue(At(s, i + k - 1))])

\* the number of backslashes in a row that end right before s[j], none of
\* them before s[lo]
Backslashes(s, lo, j) ==
    CHOOSE k \in 0..(j - lo) :
        /\ \A m \in 1..k : At(s, j - m) = "\\"
        /\ k = j - lo \/ At(s, j - k - 1) # "\\"

\* s[j] is the character a backslash escapes, in a string that begins at lo
IsEscaped(s, lo, j) == Backslashes(s, lo, j) % 2 = 1

\* s[j] is the backslash that opens an escape
OpensEscape(s, lo, j) == At(s, j) = "\\" /\ ~IsEscaped(s, lo, j)

\* s[j] is one of the four digits of a \uXXXX escape
InUnicodeEscape(s, lo, j) ==
    \E k \in 2..5 :
        j - k >= lo /\ OpensEscape(s, lo, j - k) /\ At(s, j - k + 1) = "u"

\* what s[j] adds to the string scanned from lo: the character itself, the
\* character of the escape it opens, nothing inside an escape; "" with
\* BadChunk for a control character or a malformed escape
Chunk(s, lo, j) ==
    IF OpensEscape(s, lo, j) THEN
        IF At(s, j + 1) = "u" THEN UnicodeEscape(s, j + 2)
        ELSE Unescape(At(s, j + 1))
    ELSE IF IsEscaped(s, lo, j) \/ InUnicodeEscape(s, lo, j) THEN ""
    ELSE At(s, j)

BadChunk(s, lo, j) ==
    IF OpensEscape(s, lo, j) THEN Chunk(s, lo, j) = ""
    ELSE IF IsEscaped(s, lo, j) \/ InUnicodeEscape(s, lo, j) THEN FALSE
    ELSE At(s, j) \in {"\t", "\n", "\r", "\f"}

\* json.decoder.py_scanstring (strict): i is the index after the opening
\* quote; the string ends at the first quote that no backslash escapes
ScanString(s, i) ==
    LET Closes(j) == At(s, j) = "\"" /\ ~IsEscaped(s, i, j)
        Body(end) ==
            IF \E j \in i..(end - 1) : BadChunk(s, i, j) THEN ScanFail
            ELSE ScanOk(Cat([j \in i..(end - 1) |-> Chunk(s, i, j)], i, end - 1),
                        end + 1)
    IN  IF \E j \in i..Len(s) : Closes(j)
        THEN Body(CHOOSE j \in i..Len(s) :
                    Closes(j) /\ \A m \in i..(j - 1) : ~Closes(m))
        ELSE ScanFail

\* dict(pairs): a later pair with the same key replaces the earlier one
DictOf(pairs) ==
    [k \in {pairs[j][1] : j \in DOMAIN pairs} |->
        pairs[CHOOSE j \in DOMAIN pairs :
                /\ pairs[j][1] = k
                /\ \A m \in DOMAIN pairs : pairs[m][1] = k => m <= j][2]]

RECURSIVE ScanOnce(_, _)
RECURSIVE ScanMembers(_, _, _)
RECURSIVE ScanElements(_, _, _)

\* json.decoder.JSONObject after the first key's opening quote was seen at i - 1
ScanMembers(s, i, pairs) ==
    LET NextKey(next, all) ==
            IF At(s, next) # "\"" THEN ScanFail
            ELSE ScanMembers(s, next + 1, all)
        AfterValue(after, all) ==
            IF At(s, after) = "}"
            THEN ScanOk([t |-> "dict", v |-> DictOf(all)], after + 1)
            ELSE IF At(s, after) # "," THEN ScanFail
            ELSE NextKey(SkipWs(s, after + 1), all)
        Value(key, value) ==
            IF ~value.ok THEN ScanFail
            ELSE AfterValue(SkipWs(s, value.pos), Append(pairs, <<key.val, value.val>>))
        Colon(key, colon) ==
            IF At(s, colon) # ":" THEN ScanFail
            ELSE Value(key, ScanOnce(s, SkipWs(s, colon + 1)))
        Key(key) ==
            IF ~key.ok THEN ScanFail
            ELSE Colon(key, SkipWs(s, key.pos))
    IN  Key(ScanString(s, i))

\* json.decoder.JSONArray after the opening bracket, at the next value
ScanElements(s, i, items) ==
    LET AfterValue(after, all) ==
            IF At(s, after) = "]"
            THEN ScanOk([t |-> "list", v |-> all], after + 1)
            ELSE IF At(s, after) # "," THEN ScanFail
            ELSE ScanElements(s, SkipWs(s, after + 1), all)
        Value(value) ==
            IF ~value.ok THEN ScanFail
            ELSE AfterValue(SkipWs(s, value.pos), Append(items, value.val))
    IN  Value(ScanOnce(s, i))

\* json.scanner.py_make_scanner._scan_once
ScanOnce(s, i) ==
    LET String(str) ==
            IF str.ok THEN ScanOk(PyStr(str.val), str.pos) ELSE ScanFail
        Object(first) ==
            IF At(s, first) = "}" THEN ScanOk([t |-> "dict", v |-> DictOf(<<>>)], first + 1)
            ELSE IF At(s, first) # "\"" THEN ScanFail
            ELSE ScanMembers(s, first + 1, <<>>)
        Array(first) ==
            IF At(s, first) = "]" THEN ScanOk([t |-> "list", v |-> <<>>], first + 1)
            ELSE ScanElements(s, first, <<>>)
        Number(end) ==
            IF end > 0 THEN ScanOk([t |-> "num", v |-> SubSeq(s, i, end - 1)], end)
            ELSE IF HasPrefix(s, i, "NaN") THEN ScanOk([t |-> "num", v |-> "NaN"], i + 3)
            ELSE IF HasPrefix(s, i, "Infinity")
                THEN ScanOk([t |-> "num", v |-> "Infinity"], i + 8)
            ELSE IF HasPrefix(s, i, "-Infinity")
                THEN ScanOk([t |-> "num", v |-> "-Infinity"], i + 9)
            ELSE ScanFail
        Scan(c) ==
            IF c = "\"" THEN String(ScanString(s, i + 1))
            ELSE IF c = "{" THEN Object(SkipWs(s, i + 1))
            ELSE IF c = "[" THEN Array(SkipWs(s, i + 1))
            ELSE IF HasPrefix(s, i, "null") THEN ScanOk(None, i + 4)
            ELSE IF HasPrefix(s, i, "true") THEN ScanOk([t |-> "bool", v |-> TRUE], i + 4)
            ELSE IF HasPrefix(s, i, "false")
                THEN ScanOk([t |-> "bool", v |-> FALSE], i + 5)
            ELSE Number(NumberEnd(s, i))
    IN  Scan(At(s, i))

\* json.loads(s): the value, or JSONDecodeError
JsonLoads(s) ==
    LET End(r) ==
            IF ~r.ok THEN JSONDecodeError
            ELSE IF SkipWs(s, r.pos) # Len(s) + 1 THEN JSONDecodeError
            ELSE r.val
    IN  End(ScanOnce(s, SkipWs(s, 1)))

(***************************************************************************)
(* bytes: str.encode('utf-8'), bytes.decode('utf-8'), base64               *)
(*                                                                         *)
(* bytes are sequences of 0..255.                                          *)
(***************************************************************************)
\* s.encode('utf-8'); a character that is not ASCII stands for U+00E9
Utf8Encode(s) ==
    CatSeq([i \in 1..Len(s) |->
            IF IsAscii(At(s, i)) THEN <<Ord(At(s, i))>> ELSE <<195, 169>>],
           1, Len(s))

UnicodeDecodeError == [ok |-> FALSE, err |-> "UnicodeDecodeError"]

IsCont(b, i) == i <= Len(b) /\ b[i] >= 128 /\ b[i] <= 191

\* the number of bytes of the well-formed UTF-8 sequence at b[i], 0 if none
Utf8SeqLen(b, i) ==
    LET c == b[i]
        second == IF i + 1 <= Len(b) THEN b[i + 1] ELSE 0
    IN  IF c < 128 THEN 1
        ELSE IF c >= 194 /\ c <= 223 /\ IsCont(b, i + 1) THEN 2
        ELSE IF /\ c >= 224 /\ c <= 239
                /\ IsCont(b, i + 1) /\ IsCont(b, i + 2)
                /\ (c = 224 => second >= 160)
                /\ (c = 237 => second <= 159) THEN 3
        ELSE IF /\ c >= 240 /\ c <= 244
                /\ IsCont(b, i + 1) /\ IsCont(b, i + 2) /\ IsCont(b, i + 3)
                /\ (c = 240 => second >= 144)
                /\ (c = 244 => second <= 143) THEN 4
        ELSE 0

\* b[i] is a continuation byte that the sequence begun before it holds
InSequence(b, i) ==
    \E k \in 1..3 :
        /\ i - k >= 1
        /\ \A m \in 1..(k - 1) : IsCont(b, i - m)
        /\ ~IsCont(b, i - k)
        /\ Utf8SeqLen(b, i - k) > k

\* b.decode('utf-8'): [ok, str], or UnicodeDecodeError when some byte
\* neither begins a well-formed sequence nor continues one
Utf8Decode(b) ==
    IF \A i \in 1..Len(b) :
            IF IsCont(b, i) THEN InSequence(b, i) ELSE Utf8SeqLen(b, i) > 0
    THEN [ok |-> TRUE,
          str |-> Cat([i \in 1..Len(b) |->
                        IF IsCont(b, i) THEN ""
                        ELSE IF b[i] < 128 THEN Chr(b[i]) ELSE OtherChar],
                      1, Len(b))]
    ELSE UnicodeDecodeError

Base64Alphabet == "ABCDEFGHIJKLMNOPQRSTUVWXYZabcdefghijklmnopqrstuvwxyz0123456789+/"

BinasciiError == [ok |-> FALSE, err |-> "binascii.Error"]

\* base64._bytes_from_decode_data: s.encode('ascii') fails with a ValueError
\* that is no binascii.Error
AsciiValueError == [ok |-> FALSE, err |-> "ValueError"]

\* the characters of s that a2b_base64 looks at: those of the alphabet and
\* the padding; every other character is skipped
Base64Chars(s) ==
    Cat([i \in 1..Len(s) |->
            IF At(s, i) = "=" \/ IndexIn(At(s, i), Base64Alphabet, 1) > 0
            THEN At(s, i) ELSE ""], 1, Len(s))

\* quad_pos when a2b_base64 reaches f[i]: the data characters before it, mod 4
QuadPos(f, i) == Cardinality({j \in 1..(i - 1) : At(f, j) # "="}) % 4

\* the padding f[i] completes a quad, which ends the input: one '=' after
\* three data characters, a second '=' in a row after two
EndsInput(f, i) ==
    /\ At(f, i) = "="
    /\ \/ QuadPos(f, i) = 3
       \/ QuadPos(f, i) = 2 /\ i > 1 /\ At(f, i - 1) = "="

\* the data characters a2b_base64 reads from f before the input ends
Base64Data(f) ==
    LET Upto(end) ==
            Cat([i \in 1..end |-> IF At(f, i) = "=" THEN "" ELSE At(f, i)],
                1, end)
    IN  IF \E i \in 1..Len(f) : EndsInput(f, i)
        THEN Upto(CHOOSE i \in 1..Len(f) :
                    EndsInput(f, i) /\ \A m \in 1..(i - 1) : ~EndsInput(f, m))
        ELSE Upto(Len(f))

\* byte k of the data characters d: 6 bits of each, 4 characters to 3 bytes
Base64Byte(d, k) ==
    LET V(n) == IndexIn(At(d, n), Base64Alphabet, 1) - 1
        Byte(g, j) ==
            IF j = 0 THEN (V(g + 1) * 4) + (V(g + 2) \div 16)
            ELSE IF j = 1 THEN ((V(g + 2) % 16) * 16) + (V(g + 3) \div 4)
            ELSE ((V(g + 3) % 4) * 64) + V(g + 4)
    IN  Byte(4 * ((k - 1) \div 3), (k - 1) % 3)

\* binascii.a2b_base64(s) with strict_mode off: a character outside the
\* alphabet is skipped, the padding that completes a quad ends the input,
\* and an input that ends inside a quad is an error
A2bBase64(s) ==
    LET Bytes(d) ==
            [k \in 1..((3 * (Len(d) \div 4))
                       + (IF Len(d) % 4 > 1 THEN (Len(d) % 4) - 1 ELSE 0)) |->
                Base64Byte(d, k)]
        Decode(f, d) ==
            IF Len(d) % 4 # 0 /\ ~\E i \in 1..Len(f) : EndsInput(f, i)
            THEN BinasciiError
            ELSE [ok |-> TRUE, bytes |-> Bytes(d)]
        Filtered(f) == Decode(f, Base64Data(f))
    IN  Filtered(Base64Chars(s))

\* base64.b64decode(s) for a str s
B64Decode(s) ==
    IF \E i \in 1..Len(s) : ~IsAscii(At(s, i)) THEN AsciiValueError
    ELSE A2bBase64(s)

\* bytes.translate(_urlsafe_decode_translation): '-' to '+', '_' to '/'
UrlsafeTranslate(s) ==
    Cat([i \in 1..Len(s) |->
            IF At(s, i) = "-" THEN "+"
            ELSE IF At(s, i) = "_" THEN "/" ELSE At(s, i)], 1, Len(s))

\* base64.urlsafe_b64decode(s) for a str s
UrlsafeB64Decode(s) ==
    IF \E i \in 1..Len(s) : ~IsAscii(At(s, i)) THEN AsciiValueError
    ELSE A2bBase64(UrlsafeTranslate(s))

\* bytes.hex(): two hexadecimal digits a byte
HexOfBytes(b) ==
    Cat([i \in 1..Len(b) |->
            At(HexDigits, (b[i] \div 16) + 1) \o At(HexDigits, (b[i] % 16) + 1)],
        1, Len(b))

\* hashlib.md5(data).hexdigest(), the digest taken as collision-free: a
\* string of hexadecimal digits that is different for different data (the
\* data's own digits stand for the 32 of MD5)
Md5HexDigest(data) == HexOfBytes(data)

(***************************************************************************)
(* repr and str of the combined content                                    *)
(***************************************************************************)
Contains(s, c) == IndexIn(c, s, 1) > 0

\* the escape of one character inside repr(str) with the quote chosen
ReprChar(c, quote) ==
    IF c = "\\" THEN "\\\\"
    ELSE IF c = quote THEN "\\" \o c
    ELSE IF c = "\t" THEN "\\t"
    ELSE IF c = "\n" THEN "\\n"
    ELSE IF c = "\r" THEN "\\r"
    ELSE IF c = "\f" THEN "\\x0c"
    ELSE c

ReprChars(s, quote) ==
    Cat([i \in 1..Len(s) |-> ReprChar(At(s, i), quote)], 1, Len(s))

\* the string between single quotes, nothing escaped
ReprStrUnescaped(s) == "'" \o s \o "'"

\* repr(s) of a str: double quotes when s holds a single quote and no double
\* quote, single quotes otherwise
ReprStr(s) ==
    LET quote == IF Contains(s, "'") /\ ~Contains(s, "\"") THEN "\"" ELSE "'"
    IN  quote \o ReprChars(s, quote) \o quote

\* ', '.join of the parts, between brackets: repr of a list
RECURSIVE ReprJoin(_)
ReprJoin(parts) ==
    IF Len(parts) = 0 THEN ""
    ELSE IF Len(parts) = 1 THEN parts[1]
    ELSE parts[1] \o ", " \o ReprJoin(Tail(parts))

ReprList(parts) == "[" \o ReprJoin(parts) \o "]"

\* repr of one row: a list of cell strings
ReprRow(row) == ReprList([i \in DOMAIN row |-> ReprStr(row[i])])

\* repr of all_values: a list of rows
ReprValues(rows) == ReprList([i \in DOMAIN rows |-> ReprRow(rows[i])])

\* repr of {'worksheet': worksheet_name, 'data': all_values}
ReprEntry(entry) ==
    "{'worksheet': " \o ReprStr(entry.worksheet)
        \o ", 'data': " \o ReprValues(entry.data) \o "}"

\* str(combined_content)
StrOfContent(content) == ReprList([i \in DOMAIN content |-> ReprEntry(content[i])])

\* content_hash of lines 132-133
ContentHash(content) == Md5HexDigest(Utf8Encode(StrOfContent(content)))

(***************************************************************************)
(* The world of a run: environment values, the spreadsheets, the files     *)
(***************************************************************************)
\* The runs (processes) of check_changes.py
NumProcs == 2

Procs == 1..NumProcs

\* Spreadsheet keys, and the titles a worksheet can have
SpreadsheetIds == {"sheet-1", "sheet-2"}

Titles == {"A", "B"}

Values(rows) == [t |-> "values", v |-> rows]

\* GOOGLE_SHEET_ID as os.getenv gives it
SheetIdEnv == {None, PyStr(""), PyStr("sheet-1"), PyStr("sheet-2")}

\* SOURCE_WORKSHEETS as the environment holds it (None: unset)
WorksheetsEnv ==
    {None, PyStr(""), PyStr(" "), PyStr(","), PyStr("A"), PyStr(" A , B,")}

\* GOOGLE_CHAT_WEBHOOK_URL as os.getenv gives it
WebhookEnv == {None, PyStr(""), PyStr("https://chat.example/hook")}

\* Service account key payloads: JSON with the fields the library requires
KeyJson1 == "{\"client_email\": \"a@b\", \"token_uri\": \"u\", \"private_key\": \"k\"}"

KeyJson2 == "{\"client_email\": \"a@b\", \"token_uri\": \"~u\", \"private_key\": \"k\"}"

\* GOOGLE_CREDENTIALS_PATH values of the runs of main
CredentialsEnv == {None, PyStr(""), PyStr(KeyJson1), PyStr("missing.json")}

\* The files os.path.isfile finds, with their text (None: no such file)
FileText(path) ==
    IF path \in {"key.json", "josé.json", "1"} THEN PyStr(KeyJson1)
    ELSE IF path = "key2.json" THEN PyStr(KeyJson2)
    ELSE IF path = "bad.json" THEN PyStr("{}")
    ELSE None

\* What the rows of worksheet A and of worksheet B can be in the runs of main
\* (None: the spreadsheet has no worksheet of that title)
RowsOfA == {None, Values(<< <<"a">>, <<" ">> >>)}

RowsOfB == {None, Values(<< <<"a">> >>)}

\* A spreadsheet: what each title holds
Spreadsheets(rowsA, rowsB) ==
    {[title \in Titles |-> IF title = "A" THEN a ELSE b] : a \in rowsA, b \in rowsB}

\* The spreadsheet service in the runs of main: sheet-1 exists, sheet-2 does not
SheetStates ==
    {[id \in SpreadsheetIds |-> IF id = "sheet-1" THEN sh ELSE None] :
        sh \in Spreadsheets(RowsOfA, RowsOfB)}

\* What last_source_hash.json can hold before the first run (None: no file)
HashFileStates ==
    {None, PyStr("not json"), PyStr("[]"), PyStr("{}"),
     PyStr("{\"content_hash\": \"abc123\"}")}

VARIABLES
    pc,                 \* where each run is
    spreadsheet_id,     \* main: spreadsheet_id
    worksheets_env,     \* main: worksheets_env
    source_worksheets,  \* main: source_worksheets
    credentials_path,   \* get_credentials: credentials_path
    credentials_value,  \* get_credentials: credentials_value
    credentials_info,   \* get_credentials: credentials_info
    credential_source,  \* get_credentials: credential_source
    credentials,        \* main: credentials
    worksheet_index,    \* get_source_data_hash: the position of the for loop
    combined_content,   \* get_source_data_hash: combined_content
    current_hash,       \* main: current_hash
    last_hash,          \* main: last_hash
    stdout,             \* the lines each run printed
    exit_code,          \* the exit code of a run that is done
    events,             \* the calls each run made to the outside, in order
    card_message,       \* send_google_chat_notification: the card posted
    hash_file,          \* the text of last_source_hash.json (None: no file)
    hash_file_at_start, \* hash_file when the run started
    sheets              \* the spreadsheets of the service

vars ==
    <<pc, spreadsheet_id, worksheets_env, source_worksheets, credentials_path, credentials_value,
      credentials_info, credential_source, credentials, worksheet_index, combined_content,
      current_hash, last_hash, stdout, exit_code, events, card_message,
      hash_file, hash_file_at_start, sheets>>

\* the locals of get_credentials
credVars ==
    <<credentials_path, credentials_value, credentials_info, credential_source>>

\* the locals of get_source_data_hash
fetchVars == <<worksheet_index, combined_content>>

\* the locals of main
mainVars ==
    <<spreadsheet_id, worksheets_env, source_worksheets, credentials, current_hash,
      last_hash>>

\* the world outside the run
worldVars == <<hash_file, hash_file_at_start, sheets>>

Goto(p, label) == pc' = [pc EXCEPT ![p] = label]

\* print(line) for each of the lines
Output(p, lines) == stdout' = [stdout EXCEPT ![p] = @ \o lines]

Event(p, e) == events' = [events EXCEPT ![p] = Append(@, e)]

\* SysExit with the marker line printed on the way out
SysExitWithMarker(p, lines) ==
    /\ pc' = [pc EXCEPT ![p] = "done"]
    /\ stdout' = [stdout EXCEPT ![p] = @ \o lines \o <<"NEEDS_UPDATE=false">>]
    /\ exit_code' = [exit_code EXCEPT ![p] = 1]

\* sys.exit(1) after the lines were printed
SysExit(p, lines) ==
    /\ Goto(p, "done")
    /\ Output(p, lines)
    /\ exit_code' = [exit_code EXCEPT ![p] = 1]

\* main returns: the interpreter exits with code 0
Return(p, lines) ==
    /\ Goto(p, "done")
    /\ Output(p, lines)
    /\ exit_code' = [exit_code EXCEPT ![p] = 0]

\* A process that has not started: no locals, nothing printed
InitRun ==
    /\ pc = [p \in Procs |-> "idle"]
    /\ spreadsheet_id = [p \in Procs |-> None]
    /\ worksheets_env = [p \in Procs |-> None]
    /\ source_worksheets = [p \in Procs |-> <<>>]
    /\ credentials_path = [p \in Procs |-> None]
    /\ credentials_value = [p \in Procs |-> ""]
    /\ credentials_info = [p \in Procs |-> None]
    /\ credential_source = [p \in Procs |-> None]
    /\ credentials = [p \in Procs |-> None]
    /\ worksheet_index = [p \in Procs |-> 1]
    /\ combined_content = [p \in Procs |-> <<>>]
    /\ current_hash = [p \in Procs |-> None]
    /\ last_hash = [p \in Procs |-> None]
    /\ stdout = [p \in Procs |-> <<>>]
    /\ exit_code = [p \in Procs |-> 0]
    /\ events = [p \in Procs |-> <<>>]
    /\ card_message = [p \in Procs |-> None]
    /\ hash_file_at_start = [p \in Procs |-> None]

Init ==
    /\ InitRun
    /\ hash_file \in HashFileStates
    /\ sheets \in SheetStates

(***************************************************************************)
(* main, lines 248-300                                                     *)
(***************************************************************************)
\* python check_changes.py is started; no other run is under way (which
\* process runs makes no difference then: it is the first)
Start(p) ==
    /\ \A q \in Procs : pc[q] = "idle" /\ p <= q
    /\ Goto(p, "main")
    /\ hash_file_at_start' = [hash_file_at_start EXCEPT ![p] = hash_file]
    /\ UNCHANGED <<credVars, fetchVars, mainVars, stdout, exit_code, events,
                   card_message, hash_file, sheets>>

\* [w.strip() for w in pieces if w.strip()]
RECURSIVE StripNonEmpty(_)
StripNonEmpty(pieces) ==
    IF Len(pieces) = 0 THEN <<>>
    ELSE (IF Strip(pieces[1]) # "" THEN <<Strip(pieces[1])>> ELSE <<>>)
         \o StripNonEmpty(Tail(pieces))

\* CheckSettings without the check of lines 259-261
CheckSettingsIdOnly(id, ws) ==
    IF Falsy(id) THEN "GOOGLE_SHEET_ID environment variable not set" ELSE ""

\* lines 253-261: the message of the required setting that is missing ("" when
\* both are there); the worksheets are not read when the id is missing
CheckSettings(id, ws) ==
    IF Falsy(id) THEN "GOOGLE_SHEET_ID environment variable not set"
    ELSE IF Strip(ws) = "" THEN "SOURCE_WORKSHEETS environment variable not set"
    ELSE ""

\* lines 252-265: the two required settings are read and checked
ReadConfig(p) ==
    /\ pc[p] = "main"
    /\ \E id \in SheetIdEnv, ws \in WorksheetsEnv :
        LET missing == CheckSettings(id, IF ws.t = "None" THEN "" ELSE ws.v) IN
        /\ spreadsheet_id' = [spreadsheet_id EXCEPT ![p] = id]
        /\ worksheets_env' =
             [worksheets_env EXCEPT ![p] =
                 IF Falsy(id) THEN None
                 ELSE PyStr(Strip(IF ws.t = "None" THEN "" ELSE ws.v))]
        /\ IF missing # "" THEN
               /\ SysExit(p, <<missing>>)
               /\ UNCHANGED source_worksheets
           ELSE
               /\ Goto(p, "get_credentials")
               /\ Output(p, <<"Checking for changes in source worksheets...">>)
               /\ source_worksheets' =
                    [source_worksheets EXCEPT ![p] =
                        StripNonEmpty(SplitComma(worksheets_env'[p].v, 1, ""))]
               /\ UNCHANGED exit_code
    /\ UNCHANGED <<credentials, current_hash, last_hash, credVars, fetchVars, events,
                   card_message, worldVars>>

(***************************************************************************)
(* get_credentials, lines 31-100                                           *)
(***************************************************************************)
\* The .env file beside the script (None: there is none), with what it gives
\* GOOGLE_CREDENTIALS_PATH
DotEnvFiles ==
    {None,
     [t |-> "env", GOOGLE_CREDENTIALS_PATH |-> None],
     [t |-> "env", GOOGLE_CREDENTIALS_PATH |-> PyStr(KeyJson1)]}

\* os.getenv('CI')
CIEnv == {None, PyStr("true")}

\* os.getenv('GOOGLE_CREDENTIALS_PATH') after load_env_file: load_dotenv
\* sets a variable the environment does not hold
AfterLoadEnv(ci, dotenv, env) ==
    IF ci # PyStr("true") /\ dotenv.t = "env" /\ env.t = "None"
    THEN dotenv.GOOGLE_CREDENTIALS_PATH
    ELSE env

\* GetCredentialsEnv with the except clause of lines 295-297 printing the
\* error without sys.exit(1): main returns
GetCredentialsEnvLogged(p, envValues) ==
    /\ pc[p] = "get_credentials"
    /\ \E ci \in CIEnv, dotenv \in DotEnvFiles, env \in envValues :
        LET path == AfterLoadEnv(ci, dotenv, env)
        IN  /\ credentials_path' = [credentials_path EXCEPT ![p] = path]
            /\ IF Falsy(path)
               THEN Return(p, <<"Unexpected error: GOOGLE_CREDENTIALS_PATH environment variable not set">>)
               ELSE /\ Goto(p, "cred_raw")
                    /\ UNCHANGED <<stdout, exit_code>>
    /\ UNCHANGED <<credentials_value, credentials_info, credential_source,
                   fetchVars, mainVars, events, card_message, worldVars>>

\* lines 33-39: the setting is read; a missing one raises ValueError outside
\* the try of get_credentials, which main's except Exception catches
GetCredentialsEnv(p, envValues) ==
    /\ pc[p] = "get_credentials"
    /\ \E ci \in CIEnv, dotenv \in DotEnvFiles, env \in envValues :
        LET path == AfterLoadEnv(ci, dotenv, env)
            loaded == IF ci # PyStr("true") /\ dotenv.t = "env"
                      THEN <<"Loaded credentials from .env file">>
                      ELSE <<>>
        IN  /\ credentials_path' = [credentials_path EXCEPT ![p] = path]
            /\ IF Falsy(path)
               THEN SysExit(p, loaded \o
                        <<"Unexpected error: GOOGLE_CREDENTIALS_PATH environment variable not set">>)
               ELSE /\ Goto(p, "cred_raw")
                    /\ Output(p, loaded)
                    /\ UNCHANGED exit_code
    /\ UNCHANGED <<credentials_value, credentials_info, credential_source,
                   fetchVars, mainVars, events, card_message, worldVars>>

\* lines 47-50: the value stripped, and its surrounding quotes removed
CredentialsValue(path) ==
    LET stripped == Strip(path) IN
    IF \/ (StartsWith(stripped, "\"") /\ EndsWith(stripped, "\""))
       \/ (StartsWith(stripped, "'") /\ EndsWith(stripped, "'"))
    THEN Strip(Slice(stripped, 2, Len(stripped) - 1))
    ELSE stripped

\* lines 52-56: _parse_credentials
ParseCredentials(raw_value) ==
    LET Parsed(value) == IF value = JSONDecodeError THEN None ELSE value
    IN  Parsed(JsonLoads(raw_value))

\* lines 47-60, 78-79: the value is tried as raw JSON
CredRaw(p) ==
    /\ pc[p] = "cred_raw"
    /\ LET value == CredentialsValue(credentials_path[p].v)
           info == ParseCredentials(value)
       IN  /\ credentials_value' = [credentials_value EXCEPT ![p] = value]
           /\ credentials_info' = [credentials_info EXCEPT ![p] = info]
           /\ IF info.t = "None"
              THEN /\ Goto(p, "cred_base64")
                   /\ UNCHANGED credential_source
              ELSE /\ Goto(p, "cred_info")
                   /\ credential_source' =
                        [credential_source EXCEPT ![p] = PyStr("embedded")]
    /\ UNCHANGED <<credentials_path, fetchVars, mainVars, stdout, exit_code,
                   events, card_message, worldVars>>

\* lines 64-66: cleaned += '=' * (4 - padding)
RECURSIVE Repeat(_, _)
Repeat(c, n) == IF n <= 0 THEN "" ELSE c \o Repeat(c, n - 1)

Padded(cleaned) ==
    IF Len(cleaned) % 4 # 0
    THEN cleaned \o Repeat("=", 4 - (Len(cleaned) % 4))
    ELSE cleaned

\* lines 68-76, one turn of the loop with what decoder(cleaned) gave:
\* "found" with the info, "continue", or "raise" for an exception the loop
\* does not catch
DecoderTurn(decoded) ==
    IF ~decoded.ok THEN
        IF decoded.err = "binascii.Error" THEN [kind |-> "continue"]
        ELSE [kind |-> "raise"]
    ELSE LET Parsed(info) ==
                 IF info.t = "None" THEN [kind |-> "continue"]
                 ELSE [kind |-> "found", info |-> info]
             Decoded(text) ==
                 IF ~text.ok THEN [kind |-> "continue"]
                 ELSE Parsed(ParseCredentials(Strip(text.str)))
         IN  Decoded(Utf8Decode(decoded.bytes))

\* lines 67-76: base64.b64decode, then base64.urlsafe_b64decode
DecodeLoop(cleaned) ==
    LET Turn(first) ==
            IF first.kind # "continue" THEN first
            ELSE DecoderTurn(UrlsafeB64Decode(cleaned))
    IN  Turn(DecoderTurn(B64Decode(cleaned)))

\* lines 61-76: the value is tried as base64 of JSON
CredBase64(p) ==
    /\ pc[p] = "cred_base64"
    /\ LET cleaned == RemoveWhitespace(credentials_value[p])
           turn == IF cleaned = "" THEN [kind |-> "continue"]
                   ELSE DecodeLoop(Padded(cleaned))
       IN  IF turn.kind = "raise" THEN
               /\ SysExit(p, <<"Error loading credentials">>)
               /\ UNCHANGED <<credentials_info, credential_source>>
           ELSE IF turn.kind = "found" THEN
               /\ Goto(p, "cred_info")
               /\ credentials_info' = [credentials_info EXCEPT ![p] = turn.info]
               /\ credential_source' = [credential_source EXCEPT ![p] = PyStr("base64")]
               /\ UNCHANGED <<stdout, exit_code>>
           ELSE
               /\ Goto(p, "cred_file")
               /\ UNCHANGED <<credentials_info, credential_source, stdout, exit_code>>
    /\ UNCHANGED <<credentials_path, credentials_value, fetchVars, mainVars,
                   events, card_message, worldVars>>

\* The fields google.oauth2.service_account needs of the info
RequiredFields == {"client_email", "token_uri", "private_key"}

\* Credentials.from_service_account_info(info, scopes=scopes): the
\* credentials, or an exception when info is no mapping with the fields
FromServiceAccountInfo(info) ==
    IF info.t = "dict" /\ RequiredFields \subseteq DOMAIN info.v
    THEN [t |-> "Credentials",
          service_account_email |-> info.v["client_email"],
          token_uri |-> info.v["token_uri"],
          private_key |-> info.v["private_key"]]
    ELSE [t |-> "Exception"]

\* lines 81-84: the parsed info is used, whatever it holds
CredInfo(p) ==
    /\ pc[p] = "cred_info"
    /\ LET made == FromServiceAccountInfo(credentials_info[p])
           label == IF credential_source[p] = PyStr("embedded")
                    THEN "embedded JSON" ELSE "base64 JSON"
           using == "Using " \o label \o " service account credentials"
       IN  IF made.t = "Credentials" THEN
               /\ Goto(p, "authorize")
               /\ Output(p, <<using>>)
               /\ credentials' = [credentials EXCEPT ![p] = made]
               /\ UNCHANGED exit_code
           ELSE
               /\ SysExit(p, <<using, "Error loading credentials">>)
               /\ UNCHANGED credentials
    /\ UNCHANGED <<credVars, fetchVars, spreadsheet_id, worksheets_env,
                   source_worksheets,
                   current_hash, last_hash, events, card_message, worldVars>>

\* Credentials.from_service_account_file(filename, scopes=scopes)
FromServiceAccountFile(filename) ==
    LET Made(info) ==
            IF info = JSONDecodeError THEN [t |-> "Exception"]
            ELSE FromServiceAccountInfo(info)
    IN  Made(JsonLoads(FileText(filename).v))

\* lines 86-93: the value is tried as the path of a file
CredFile(p) ==
    /\ pc[p] = "cred_file"
    /\ IF FileText(credentials_value[p]).t # "None" THEN
           LET made == FromServiceAccountFile(credentials_value[p])
               using == "Using service account credentials from file path"
           IN  IF made.t = "Credentials" THEN
                   /\ Goto(p, "authorize")
                   /\ Output(p, <<using>>)
                   /\ credentials' = [credentials EXCEPT ![p] = made]
                   /\ UNCHANGED exit_code
               ELSE
                   /\ SysExit(p, <<using, "Error loading credentials">>)
                   /\ UNCHANGED credentials
       ELSE
           /\ SysExit(p, <<"Error loading credentials">>)
           /\ UNCHANGED credentials
    /\ UNCHANGED <<credVars, fetchVars, spreadsheet_id, worksheets_env,
                   source_worksheets,
                   current_hash, last_hash, events, card_message, worldVars>>

(***************************************************************************)
(* get_source_data_hash, lines 102-147                                     *)
(***************************************************************************)
\* lines 138-147: the exceptions that end get_source_data_hash
FetchFailures ==
    {<<"Google Sheets API Error occurred">>, <<"Error accessing spreadsheet data">>}

\* Authorize without the sys.exit(1) of line 147: the failure is printed and
\* the run goes on
AuthorizeFailureIgnored(p) ==
    /\ pc[p] = "authorize"
    /\ Event(p, "authorize")
    /\ Goto(p, "open_by_key")
    /\ \/ Output(p, <<"Authorized with Google Sheets API">>)
       \/ Output(p, <<"Error accessing spreadsheet data">>)
    /\ UNCHANGED <<credVars, fetchVars, mainVars, card_message, worldVars, exit_code>>

\* lines 104-106: gspread.authorize(credentials); any exception ends the run
Authorize(p) ==
    /\ pc[p] = "authorize"
    /\ Event(p, "authorize")
    /\ \/ /\ Goto(p, "open_by_key")
          /\ Output(p, <<"Authorized with Google Sheets API">>)
          /\ UNCHANGED exit_code
       \/ SysExit(p, <<"Error accessing spreadsheet data">>)
    /\ UNCHANGED <<credVars, fetchVars, mainVars, card_message, worldVars>>

\* lines 108-111: gc.open_by_key(spreadsheet_id)
OpenByKey(p) ==
    /\ pc[p] = "open_by_key"
    /\ Event(p, "open_by_key")
    /\ \/ /\ sheets[spreadsheet_id[p].v] # None
          /\ Goto(p, "fetch")
          /\ Output(p, <<"Opened spreadsheet successfully">>)
          /\ worksheet_index' = [worksheet_index EXCEPT ![p] = 1]
          /\ combined_content' = [combined_content EXCEPT ![p] = <<>>]
          /\ UNCHANGED exit_code
       \/ /\ sheets[spreadsheet_id[p].v] = None
          /\ SysExit(p, <<"Spreadsheet not found or access denied",
                          "   Please ensure the service account has been granted access">>)
          /\ UNCHANGED fetchVars
       \/ /\ \E failure \in FetchFailures : SysExit(p, failure)
          /\ UNCHANGED fetchVars
    /\ UNCHANGED <<credVars, mainVars, card_message, worldVars>>

\* str(n) for n >= 0
RECURSIVE IntToStr(_)
IntToStr(n) ==
    IF n < 10 THEN At("0123456789", n + 1)
    ELSE IntToStr(n \div 10) \o At("0123456789", (n % 10) + 1)

\* line 124: len([row for row in all_values if any(cell.strip() for cell in row)])
RowsWithData(all_values) ==
    Cardinality({i \in DOMAIN all_values :
                    \E j \in DOMAIN all_values[i] : Strip(all_values[i][j]) # ""})

\* WorksheetNotFound without the except clause of lines 127-129: the
\* exception reaches line 145
WorksheetNotFoundAborts(p) ==
    /\ events' = [events EXCEPT ![p] = @ \o <<"worksheet", "worksheet_not_found">>]
    /\ SysExit(p, <<"Error accessing spreadsheet data">>)
    /\ UNCHANGED fetchVars

\* lines 127-129: except gspread.WorksheetNotFound: the name is skipped
WorksheetNotFound(p) ==
    /\ events' = [events EXCEPT ![p] = @ \o <<"worksheet", "worksheet_not_found">>]
    /\ worksheet_index' = [worksheet_index EXCEPT ![p] = @ + 1]
    /\ Output(p, <<"Worksheet not found, skipping">>)
    /\ UNCHANGED <<pc, exit_code, combined_content>>

\* lines 113-129: one turn of the for loop over source_worksheets
FetchWorksheet(p) ==
    /\ pc[p] = "fetch"
    /\ worksheet_index[p] <= Len(source_worksheets[p])
    /\ sheets[spreadsheet_id[p].v] # None
    /\ LET worksheet_name == source_worksheets[p][worksheet_index[p]]
           worksheet == sheets[spreadsheet_id[p].v][worksheet_name]
       IN  \/ /\ worksheet.t = "values"
              /\ events' = [events EXCEPT ![p] = @ \o <<"worksheet", "get_all_values">>]
              /\ combined_content' =
                    [combined_content EXCEPT ![p] =
                        Append(@, [worksheet |-> worksheet_name, data |-> worksheet.v])]
              /\ worksheet_index' = [worksheet_index EXCEPT ![p] = @ + 1]
              /\ Output(p, <<worksheet_name \o ": " \o IntToStr(RowsWithData(worksheet.v))
                                \o " rows with data">>)
              /\ UNCHANGED <<pc, exit_code>>
           \/ /\ worksheet.t = "None"
              /\ WorksheetNotFound(p)
           \/ /\ Event(p, "worksheet")
              /\ \E failure \in FetchFailures : SysExit(p, failure)
              /\ UNCHANGED fetchVars
    /\ UNCHANGED <<credVars, mainVars, card_message, worldVars>>

\* lines 131-136: the loop is over; the hash of the combined content
ComputeHash(p) ==
    /\ pc[p] = "fetch"
    /\ worksheet_index[p] > Len(source_worksheets[p])
    /\ Goto(p, "load_last_hash")
    /\ current_hash' = [current_hash EXCEPT ![p] = PyStr(ContentHash(combined_content[p]))]
    /\ Output(p, <<"Combined content hash generated">>)
    /\ UNCHANGED <<credVars, fetchVars, spreadsheet_id, worksheets_env,
                   source_worksheets,
                   credentials, last_hash, exit_code, events, card_message, worldVars>>

(***************************************************************************)
(* load_last_hash, save_hash, lines 149-172                                *)
(***************************************************************************)
\* lines 153-155: json.load(f) and data.get('content_hash'): the value, or
\* "raise" for the exception load_last_hash catches
StoredHash(text) ==
    LET Get(data) ==
            IF data = JSONDecodeError THEN [t |-> "raise"]
            ELSE IF data.t # "dict" THEN [t |-> "raise"]
            ELSE IF "content_hash" \in DOMAIN data.v THEN data.v["content_hash"]
            ELSE None
    IN  Get(JsonLoads(text))

\* the digits of a number literal before its exponent are all zeros
NumIsZero(text) ==
    \A i \in 1..Len(text) :
        (\A k \in 1..i : At(text, k) \notin {"e", "E"})
            => At(text, i) \in {"0", "-", ".", "e", "E"}

\* bool(v) of a JSON value
Truthy(v) ==
    IF v.t = "None" THEN FALSE
    ELSE IF v.t = "str" THEN v.v # ""
    ELSE IF v.t = "bool" THEN v.v
    ELSE IF v.t = "num" THEN ~NumIsZero(v.v)
    ELSE IF v.t = "list" THEN Len(v.v) > 0
    ELSE DOMAIN v.v # {}

\* a is b: two strings read from different places are never the same object
PyIs(a, b) == a.t = "None" /\ b.t = "None"

\* not b or a == b: no stored hash taken as no change
PyEqOrNone(a, b) == b.t = "None" \/ (a.t = b.t /\ a.v = b.v)

\* a == b for a str a and a JSON value b
PyEq(a, b) == a.t = b.t /\ (a.t # "None" => a.v = b.v)

FirstOrPrevious(hash) ==
    IF Truthy(hash) THEN "Previous check completed" ELSE "First time check"

\* LoadLastHash without the except clause of lines 157-159: the exception of
\* open, json.load or data.get reaches line 295
LoadLastHashRaises(p) ==
    /\ pc[p] = "load_last_hash"
    /\ Event(p, "load_last_hash")
    /\ \/ /\ hash_file.t = "None"
          /\ Goto(p, "compare")
          /\ last_hash' = [last_hash EXCEPT ![p] = None]
          /\ Output(p, <<FirstOrPrevious(None)>>)
          /\ UNCHANGED exit_code
       \/ /\ hash_file.t = "str"
          /\ StoredHash(hash_file.v).t # "raise"
          /\ Goto(p, "compare")
          /\ last_hash' = [last_hash EXCEPT ![p] = StoredHash(hash_file.v)]
          /\ Output(p, <<FirstOrPrevious(StoredHash(hash_file.v))>>)
          /\ UNCHANGED exit_code
       \/ /\ hash_file.t = "str"
          /\ SysExit(p, <<"Unexpected error">>)
          /\ UNCHANGED last_hash
    /\ UNCHANGED <<credVars, fetchVars, spreadsheet_id, worksheets_env,
                   source_worksheets,
                   credentials, current_hash, card_message, worldVars>>

\* lines 149-159 and 274-278: the stored hash is read; a file that cannot be
\* read or holds no JSON object gives None, with a warning
LoadLastHash(p) ==
    /\ pc[p] = "load_last_hash"
    /\ Goto(p, "compare")
    /\ Event(p, "load_last_hash")
    /\ \/ /\ hash_file.t = "None"
          /\ last_hash' = [last_hash EXCEPT ![p] = None]
          /\ Output(p, <<FirstOrPrevious(None)>>)
       \/ /\ hash_file.t = "str"
          /\ StoredHash(hash_file.v).t # "raise"
          /\ last_hash' = [last_hash EXCEPT ![p] = StoredHash(hash_file.v)]
          /\ Output(p, <<FirstOrPrevious(StoredHash(hash_file.v))>>)
       \/ /\ hash_file.t = "str"
          /\ StoredHash(hash_file.v).t = "raise"
          /\ last_hash' = [last_hash EXCEPT ![p] = None]
          /\ Output(p, <<"Warning: Could not load last hash", FirstOrPrevious(None)>>)
       \/ /\ hash_file.t = "str"
          /\ last_hash' = [last_hash EXCEPT ![p] = None]
          /\ Output(p, <<"Warning: Could not load last hash", FirstOrPrevious(None)>>)
    /\ UNCHANGED <<credVars, fetchVars, spreadsheet_id, worksheets_env,
                   source_worksheets,
                   credentials, current_hash, exit_code, card_message, worldVars>>

\* json.dumps of a str: the characters JSON escapes
JsonEscapeChar(c) ==
    IF c \in {"\"", "\\"} THEN "\\" \o c
    ELSE IF c = "\n" THEN "\\n"
    ELSE IF c = "\r" THEN "\\r"
    ELSE IF c = "\t" THEN "\\t"
    ELSE IF c = "\f" THEN "\\f"
    ELSE IF ~IsAscii(c) THEN "\\u00e9"
    ELSE c

JsonEscape(s) == Cat([i \in 1..Len(s) |-> JsonEscapeChar(At(s, i))], 1, Len(s))

\* HashFileText with the hash under another key than the one load_last_hash
\* reads
HashFileTextOtherKey(content_hash) ==
    "{\n  \"hash\": \"" \o JsonEscape(content_hash) \o "\"\n}"

\* lines 164-168: json.dump({'content_hash': content_hash}, f, indent=2)
HashFileText(content_hash) ==
    "{\n  \"content_hash\": \"" \o JsonEscape(content_hash) \o "\"\n}"

\* SaveHash without the sys.exit(1) of line 172: the failure is printed and
\* save_hash returns
SaveHashFailureIgnored(p) ==
    /\ pc[p] = "save_hash"
    /\ Goto(p, "notify")
    /\ \/ /\ hash_file' = PyStr(HashFileText(current_hash[p].v))
          /\ Event(p, "save_hash")
          /\ Output(p, <<"Saved new content hash">>)
       \/ /\ UNCHANGED hash_file
          /\ Event(p, "save_hash_failed")
          /\ Output(p, <<"Error saving hash">>)
    /\ UNCHANGED <<credVars, fetchVars, mainVars, card_message, exit_code,
                   hash_file_at_start, sheets>>

\* lines 161-172 and 283: the file is opened for writing and the record
\* dumped; open can fail (the file is as it was), the write can fail (the
\* file is cut short); either ends the run
SaveHash(p) ==
    /\ pc[p] = "save_hash"
    /\ LET text == HashFileText(current_hash[p].v) IN
       \/ /\ hash_file' = PyStr(text)
          /\ Event(p, "save_hash")
          /\ Goto(p, "notify")
          /\ Output(p, <<"Saved new content hash">>)
          /\ UNCHANGED exit_code
       \/ /\ UNCHANGED hash_file
          /\ Event(p, "save_hash_failed")
          /\ SysExit(p, <<"Error saving hash">>)
       \/ /\ \E n \in {0, Len(text) - 1} : hash_file' = PyStr(Slice(text, 1, n))
          /\ Event(p, "save_hash_failed")
          /\ SysExit(p, <<"Error saving hash">>)
    /\ UNCHANGED <<credVars, fetchVars, mainVars, card_message,
                   hash_file_at_start, sheets>>

(***************************************************************************)
(* main, lines 280-293, and send_google_chat_notification, lines 174-246   *)
(***************************************************************************)
\* Compare with line 283 left out: the notification without the save
CompareSkipsSave(p) ==
    /\ pc[p] = "compare"
    /\ IF ~PyEq(current_hash[p], last_hash[p])
       THEN /\ Goto(p, "notify")
            /\ Output(p, <<"Source data changes detected! Update needed.">>)
            /\ UNCHANGED exit_code
       ELSE Return(p, <<"No changes in source data detected. Skipping update.",
                        "NEEDS_UPDATE=false">>)
    /\ UNCHANGED <<credVars, fetchVars, mainVars, events, card_message, worldVars>>

\* lines 280-282 and 290-293: the two hashes are compared
Compare(p) ==
    /\ pc[p] = "compare"
    /\ IF ~PyEq(current_hash[p], last_hash[p])
       THEN /\ Goto(p, "save_hash")
            /\ Output(p, <<"Source data changes detected! Update needed.">>)
            /\ UNCHANGED exit_code
       ELSE Return(p, <<"No changes in source data detected. Skipping update.",
                        "NEEDS_UPDATE=false">>)
    /\ UNCHANGED <<credVars, fetchVars, mainVars, events, card_message, worldVars>>

\* lines 186-230: the card, but for its time stamp
CardMessage(worksheets_changed, id) ==
    [t |-> "card",
     title |-> "QA Tracker Update Detected",
     subtitle |-> "Changes found in source worksheets",
     sheets_list |-> JoinCommaSpace(worksheets_changed),
     sheet_url |-> "https://docs.google.com/spreadsheets/d/" \o id]

\* What requests.post can give: a status code, or an exception (a timeout,
\* a transport error)
PostOutcomes == {"200", "500", "exception"}

\* AfterPost without the except clause of lines 245-246: the exception of
\* requests.post reaches line 295
AfterPostRaises(p, outcome) ==
    IF outcome = "exception" THEN SysExit(p, <<"Unexpected error">>)
    ELSE /\ Goto(p, "report")
         /\ Output(p, <<IF outcome = "200"
                        THEN "Google Chat notification sent successfully"
                        ELSE "Warning: Google Chat notification failed with status "
                                 \o outcome>>)
         /\ UNCHANGED exit_code

\* lines 240-246: what requests.post gave is printed, and the function returns
AfterPost(p, outcome) ==
    /\ Goto(p, "report")
    /\ Output(p, <<IF outcome = "200"
                   THEN "Google Chat notification sent successfully"
                   ELSE IF outcome = "exception"
                   THEN "Warning: Could not send Google Chat notification"
                   ELSE "Warning: Google Chat notification failed with status "
                            \o outcome>>)
    /\ UNCHANGED exit_code

\* Notify with the names of the worksheets that were found in place of
\* source_worksheets
NotifyFoundOnly(p) ==
    /\ pc[p] = "notify"
    /\ \E webhook_url \in WebhookEnv :
        IF Falsy(webhook_url) THEN
            /\ Goto(p, "report")
            /\ Event(p, "notify")
            /\ Output(p, <<"Warning: GOOGLE_CHAT_WEBHOOK_URL not set, skipping notification">>)
            /\ UNCHANGED <<card_message, exit_code>>
        ELSE
            /\ events' = [events EXCEPT ![p] = @ \o <<"notify", "post">>]
            /\ card_message' =
                 [card_message EXCEPT ![p] =
                     CardMessage([i \in DOMAIN combined_content[p] |->
                                    combined_content[p][i].worksheet],
                                 spreadsheet_id[p].v)]
            /\ \E outcome \in PostOutcomes : AfterPost(p, outcome)
    /\ UNCHANGED <<credVars, fetchVars, mainVars, worldVars>>

\* lines 174-246 and 286: no webhook, no post; with one, the card is posted
\* once and whatever comes back is only printed
Notify(p) ==
    /\ pc[p] = "notify"
    /\ \E webhook_url \in WebhookEnv :
        IF Falsy(webhook_url) THEN
            /\ Goto(p, "report")
            /\ Event(p, "notify")
            /\ Output(p, <<"Warning: GOOGLE_CHAT_WEBHOOK_URL not set, skipping notification">>)
            /\ UNCHANGED <<card_message, exit_code>>
        ELSE
            /\ events' = [events EXCEPT ![p] = @ \o <<"notify", "post">>]
            /\ card_message' =
                 [card_message EXCEPT ![p] =
                     CardMessage(source_worksheets[p], spreadsheet_id[p].v)]
            /\ \E outcome \in PostOutcomes : AfterPost(p, outcome)
    /\ UNCHANGED <<credVars, fetchVars, mainVars, worldVars>>

\* lines 288-289: the marker line, and main returns True
Report(p) ==
    /\ pc[p] = "report"
    /\ Return(p, <<"NEEDS_UPDATE=true">>)
    /\ UNCHANGED <<credVars, fetchVars, mainVars, events, card_message, worldVars>>

\* lines 299-300: the process is over, and its memory with it
ProcessExit(p) ==
    /\ pc[p] = "done"
    /\ Goto(p, "idle")
    /\ spreadsheet_id' = [spreadsheet_id EXCEPT ![p] = None]
    /\ worksheets_env' = [worksheets_env EXCEPT ![p] = None]
    /\ source_worksheets' = [source_worksheets EXCEPT ![p] = <<>>]
    /\ credentials_path' = [credentials_path EXCEPT ![p] = None]
    /\ credentials_value' = [credentials_value EXCEPT ![p] = ""]
    /\ credentials_info' = [credentials_info EXCEPT ![p] = None]
    /\ credential_source' = [credential_source EXCEPT ![p] = None]
    /\ credentials' = [credentials EXCEPT ![p] = None]
    /\ worksheet_index' = [worksheet_index EXCEPT ![p] = 1]
    /\ combined_content' = [combined_content EXCEPT ![p] = <<>>]
    /\ current_hash' = [current_hash EXCEPT ![p] = None]
    /\ last_hash' = [last_hash EXCEPT ![p] = None]
    /\ stdout' = [stdout EXCEPT ![p] = <<>>]
    /\ exit_code' = [exit_code EXCEPT ![p] = 0]
    /\ events' = [events EXCEPT ![p] = <<>>]
    /\ card_message' = [card_message EXCEPT ![p] = None]
    /\ hash_file_at_start' = [hash_file_at_start EXCEPT ![p] = None]
    /\ UNCHANGED <<hash_file, sheets>>

\* Somebody edits the spreadsheet: rows change, a worksheet comes or goes
EditSheet ==
    /\ sheets' \in SheetStates \ {sheets}
    /\ UNCHANGED <<pc, credVars, fetchVars, mainVars, stdout, exit_code, events,
                   card_message, hash_file, hash_file_at_start>>

Next ==
    \/ \E p \in Procs :
        \/ Start(p)
        \/ ReadConfig(p)
        \/ GetCredentialsEnv(p, CredentialsEnv)
        \/ CredRaw(p)
        \/ CredBase64(p)
        \/ CredInfo(p)
        \/ CredFile(p)
        \/ Authorize(p)
        \/ OpenByKey(p)
        \/ FetchWorksheet(p)
        \/ ComputeHash(p)
        \/ LoadLastHash(p)
        \/ Compare(p)
        \/ SaveHash(p)
        \/ Notify(p)
        \/ Report(p)
        \/ ProcessExit(p)
    \/ EditSheet

\* Runs of main that follow one another, on a spreadsheet that is edited
Spec == Init /\ [][Next]_vars

\* A step of run p between its start and its end: the interpreter runs the
\* next statement, and each call to the outside returns or raises
Run(p) ==
    \/ ReadConfig(p)
    \/ GetCredentialsEnv(p, CredentialsEnv)
    \/ CredRaw(p)
    \/ CredBase64(p)
    \/ CredInfo(p)
    \/ CredFile(p)
    \/ Authorize(p)
    \/ OpenByKey(p)
    \/ FetchWorksheet(p)
    \/ ComputeHash(p)
    \/ LoadLastHash(p)
    \/ Compare(p)
    \/ SaveHash(p)
    \/ Notify(p)
    \/ Report(p)

\* Runs that follow one another on a spreadsheet nobody edits
RunsNext == \E p \in Procs : Start(p) \/ Run(p) \/ ProcessExit(p)

\* Run p is under way: it has a next statement, so that a step of Run(p) is
\* possible (each value of pc between "idle" and "done" is the guard of a step)
Running(p) == pc[p] \notin {"idle", "done"}

\* The interpreter does not stop between two statements: weak fairness of
\* Run(p), with Running(p) for ENABLED <<Run(p)>>_vars
Fair(p) == []<>(~Running(p)) \/ []<><<Run(p)>>_vars

\* The same runs, none of which stops before its end
FairSpec == Init /\ [][RunsNext]_vars /\ \A p \in Procs : Fair(p)

(***************************************************************************)
(* get_source_data_hash in two runs at once, each on its own spreadsheet   *)
(***************************************************************************)
\* What a worksheet can hold here: cells that differ in one value, a cell
\* that reads like two
HashRowsOfA ==
    {None, Values(<< <<"a", "b">> >>), Values(<< <<"a', 'b">> >>)}

HashRowsOfB == {Values(<< <<"a", "b">> >>), Values(<< <<"a", "c">> >>)}

\* The two spreadsheets: B of sheet-2 is the first B of sheet-1
HashSheetStates ==
    {[id \in SpreadsheetIds |-> IF id = "sheet-1" THEN one ELSE two] :
        one \in Spreadsheets(HashRowsOfA, HashRowsOfB),
        two \in Spreadsheets(HashRowsOfA, {Values(<< <<"a", "b">> >>)})}

\* SOURCE_WORKSHEETS of these runs
HashWorksheetsEnv == {"A", "A,B", "B,A"}

\* The payload of the service account of run p, and the spreadsheet it reads
KeyOf(p) == IF p % 2 = 1 THEN KeyJson1 ELSE KeyJson2

SheetOf(p) == IF p % 2 = 1 THEN "sheet-1" ELSE "sheet-2"

\* Every run has opened its spreadsheet (line 109) and is at the loop of
\* line 113
HashInit ==
    /\ pc = [p \in Procs |-> "fetch"]
    /\ spreadsheet_id = [p \in Procs |-> PyStr(SheetOf(p))]
    /\ worksheets_env \in [Procs -> {PyStr(ws) : ws \in HashWorksheetsEnv}]
    /\ source_worksheets =
         [p \in Procs |-> StripNonEmpty(SplitComma(worksheets_env[p].v, 1, ""))]
    /\ credentials_path = [p \in Procs |-> PyStr(KeyOf(p))]
    /\ credentials_value = [p \in Procs |-> KeyOf(p)]
    /\ credentials_info = [p \in Procs |-> ParseCredentials(KeyOf(p))]
    /\ credential_source = [p \in Procs |-> PyStr("embedded")]
    /\ credentials = [p \in Procs |-> FromServiceAccountInfo(credentials_info[p])]
    /\ worksheet_index = [p \in Procs |-> 1]
    /\ combined_content = [p \in Procs |-> <<>>]
    /\ current_hash = [p \in Procs |-> None]
    /\ last_hash = [p \in Procs |-> None]
    /\ stdout = [p \in Procs |->
                    <<"Checking for changes in source worksheets...",
                      "Using embedded JSON service account credentials",
                      "Authorized with Google Sheets API",
                      "Opened spreadsheet successfully">>]
    /\ exit_code = [p \in Procs |-> 0]
    /\ events = [p \in Procs |-> <<"authorize", "open_by_key">>]
    /\ card_message = [p \in Procs |-> None]
    /\ hash_file = None
    /\ hash_file_at_start = [p \in Procs |-> hash_file]
    /\ sheets \in HashSheetStates

HashNext == \E p \in Procs : FetchWorksheet(p) \/ ComputeHash(p)

\* Lines 113-136 of two runs, interleaved
HashSpec == HashInit /\ [][HashNext]_vars

(***************************************************************************)
(* get_credentials alone, on the forms GOOGLE_CREDENTIALS_PATH can take    *)
(***************************************************************************)
\* base64.b64encode of bytes, as text
B64EncodeBytes(b) ==
    LET Alpha(n) == At(Base64Alphabet, n + 1)
        B(i) == IF i <= Len(b) THEN b[i] ELSE 0
        Char(g, j) ==
            IF j = 0 THEN Alpha(B(g + 1) \div 4)
            ELSE IF j = 1 THEN Alpha(((B(g + 1) % 4) * 16) + (B(g + 2) \div 16))
            ELSE IF j = 2 THEN
                IF g + 2 > Len(b) THEN "="
                ELSE Alpha(((B(g + 2) % 16) * 4) + (B(g + 3) \div 64))
            ELSE IF g + 3 > Len(b) THEN "=" ELSE Alpha(B(g + 3) % 64)
    IN  Cat([k \in 1..(4 * ((Len(b) + 2) \div 3)) |->
                Char(3 * ((k - 1) \div 4), (k - 1) % 4)],
            1, 4 * ((Len(b) + 2) \div 3))

\* base64.b64encode(s.encode('utf-8')).decode()
B64Encode(s) == B64EncodeBytes(Utf8Encode(s))

\* base64.urlsafe_b64encode(s.encode('utf-8')).decode()
UrlsafeOf(s) ==
    Cat([i \in 1..Len(s) |->
            IF At(s, i) = "+" THEN "-"
            ELSE IF At(s, i) = "/" THEN "_" ELSE At(s, i)], 1, Len(s))

UrlsafeB64Encode(s) == UrlsafeOf(B64Encode(s))

\* the encoding without its padding
RECURSIVE Unpadded(_)
Unpadded(s) == IF EndsWith(s, "=") THEN Unpadded(SubSeq(s, 1, Len(s) - 1)) ELSE s

\* The paths a value can name
Paths == {"key.json", "key2.json", "josé.json", "1", "bad.json", "missing.json"}

\* The forms of a payload: the JSON itself (bare, or quoted between blanks),
\* its base64 encodings, the paths of the files that hold it
FormsOf(payload) ==
    {payload, " '" \o payload \o "'\n",
     B64Encode(payload), Unpadded(B64Encode(payload)), UrlsafeB64Encode(payload)}
        \cup {path \in Paths : FileText(path) = PyStr(payload)}

Payloads == {KeyJson1, KeyJson2}

\* GOOGLE_CREDENTIALS_PATH here: the forms of the two payloads, and values
\* that are no form of any
CredentialForms ==
    {None} \cup
    {PyStr(value) : value \in
        FormsOf(KeyJson1) \cup FormsOf(KeyJson2)
            \cup {"", " ", "{}", "null", "e30=", "MTIz", "bad.json", "missing.json"}}

\* Every run has read its settings (line 265) and is at line 268
CredInit ==
    /\ pc = [p \in Procs |-> "get_credentials"]
    /\ spreadsheet_id = [p \in Procs |-> PyStr("sheet-1")]
    /\ worksheets_env = [p \in Procs |-> PyStr("A")]
    /\ source_worksheets = [p \in Procs |-> <<"A">>]
    /\ credentials_path = [p \in Procs |-> None]
    /\ credentials_value = [p \in Procs |-> ""]
    /\ credentials_info = [p \in Procs |-> None]
    /\ credential_source = [p \in Procs |-> None]
    /\ credentials = [p \in Procs |-> None]
    /\ worksheet_index = [p \in Procs |-> 1]
    /\ combined_content = [p \in Procs |-> <<>>]
    /\ current_hash = [p \in Procs |-> None]
    /\ last_hash = [p \in Procs |-> None]
    /\ stdout = [p \in Procs |-> <<"Checking for changes in source worksheets...">>]
    /\ exit_code = [p \in Procs |-> 0]
    /\ events = [p \in Procs |-> <<>>]
    /\ card_message = [p \in Procs |-> None]
    /\ hash_file = None
    /\ hash_file_at_start = [p \in Procs |-> None]
    /\ sheets = [id \in SpreadsheetIds |-> None]

\* get_credentials has returned or ended the run
Resolved(p) == pc[p] \in {"authorize", "done"}

\* The runs resolve their credentials one after the other (they share nothing)
InTurn(p) == \A q \in Procs : q < p => Resolved(q)

CredNext ==
    \E p \in Procs :
        \/ InTurn(p) /\ GetCredentialsEnv(p, CredentialForms)
        \/ InTurn(p) /\ CredRaw(p)
        \/ InTurn(p) /\ CredBase64(p)
        \/ InTurn(p) /\ CredInfo(p)
        \/ InTurn(p) /\ CredFile(p)

\* Lines 31-100 on every form of the setting
CredSpec == CredInit /\ [][CredNext]_vars

(***************************************************************************)
(* Several runs of main on the same state file, each kept as it ended      *)
(***************************************************************************)
\* What last_source_hash.json holds before the first of the runs
RunsHashFileStates == {None, PyStr("{\"content_hash\": \"abc123\"}")}

\* Nothing has run yet
RunsInit ==
    /\ InitRun
    /\ hash_file \in RunsHashFileStates
    /\ sheets \in SheetStates

\* lines 248-268 and 104-111 with every setting there, the credentials good
\* and the spreadsheet opened: the run is at the loop of line 113, with
\* SOURCE_WORKSHEETS one of settings
BeginRun(p, settings) ==
    /\ pc[p] = "idle"
    /\ sheets["sheet-1"] # None
    /\ Goto(p, "fetch")
    /\ spreadsheet_id' = [spreadsheet_id EXCEPT ![p] = PyStr("sheet-1")]
    /\ \E ws \in settings :
        /\ worksheets_env' = [worksheets_env EXCEPT ![p] = PyStr(Strip(ws))]
        /\ source_worksheets' =
             [source_worksheets EXCEPT ![p] = StripNonEmpty(SplitComma(Strip(ws), 1, ""))]
    /\ credentials_path' = [credentials_path EXCEPT ![p] = PyStr(KeyJson1)]
    /\ credentials_value' = [credentials_value EXCEPT ![p] = KeyJson1]
    /\ credentials_info' = [credentials_info EXCEPT ![p] = ParseCredentials(KeyJson1)]
    /\ credential_source' = [credential_source EXCEPT ![p] = PyStr("embedded")]
    /\ credentials' =
         [credentials EXCEPT ![p] = FromServiceAccountInfo(ParseCredentials(KeyJson1))]
    /\ stdout' = [stdout EXCEPT ![p] =
                    <<"Checking for changes in source worksheets...",
                      "Using embedded JSON service account credentials",
                      "Authorized with Google Sheets API",
                      "Opened spreadsheet successfully">>]
    /\ events' = [events EXCEPT ![p] = <<"authorize", "open_by_key">>]
    /\ hash_file_at_start' = [hash_file_at_start EXCEPT ![p] = hash_file]
    /\ UNCHANGED <<fetchVars, current_hash, last_hash, exit_code, card_message,
                   hash_file, sheets>>

\* SOURCE_WORKSHEETS of the runs that follow one another
SeqWorksheetsEnv == {"A", " A , B,"}

\* The runs before run p are over
AfterOthers(p) == \A q \in Procs : q < p => pc[q] = "done"

SeqNext ==
    \/ \E p \in Procs :
        \/ AfterOthers(p) /\ BeginRun(p, SeqWorksheetsEnv)
        \/ AfterOthers(p) /\ FetchWorksheet(p)
        \/ AfterOthers(p) /\ ComputeHash(p)
        \/ AfterOthers(p) /\ LoadLastHash(p)
        \/ AfterOthers(p) /\ Compare(p)
        \/ AfterOthers(p) /\ SaveHash(p)
        \/ AfterOthers(p) /\ Notify(p)
        \/ AfterOthers(p) /\ Report(p)
    \/ EditSheet

\* Runs that do not overlap: each begins when the one before it is over
SeqSpec == RunsInit /\ [][SeqNext]_vars

RaceNext ==
    \/ \E p \in Procs :
        \/ BeginRun(p, {"A"})
        \/ FetchWorksheet(p)
        \/ ComputeHash(p)
        \/ LoadLastHash(p)
        \/ Compare(p)
        \/ SaveHash(p)
        \/ Notify(p)
        \/ Report(p)
    \/ EditSheet

\* Runs that overlap: the scheduler starts one while another is under way
RaceSpec == RunsInit /\ [][RaceNext]_vars

(***************************************************************************)
(* Properties of the runs of main                                          *)
(***************************************************************************)
Has(seq, e) == \E i \in DOMAIN seq : seq[i] = e

Precedes(seq, a, b) == \E i, j \in DOMAIN seq : i < j /\ seq[i] = a /\ seq[j] = b

Count(seq, e) == Cardinality({i \in DOMAIN seq : seq[i] = e})

LastLine(p) == IF stdout[p] = <<>> THEN "" ELSE stdout[p][Len(stdout[p])]

Markers == {"NEEDS_UPDATE=true", "NEEDS_UPDATE=false"}

ChangesDetected == "Source data changes detected! Update needed."

\* the run has compared its two hashes (no step between the hash and the
\* comparison ends the run)
Compared(p) ==
    current_hash[p].t = "str" /\ pc[p] \in {"save_hash", "notify", "report", "done"}

\* the stored hash the run loaded is its current hash
SameHash(p) == last_hash[p].t = "str" /\ last_hash[p].v = current_hash[p].v

\* load_last_hash would now return h
Persisted(h) ==
    LET Is(stored) == stored.t = "str" /\ stored.v = h
    IN  hash_file.t = "str" /\ Is(StoredHash(hash_file.v))

\* the run left the state file as it found it
FileUntouched(p) ==
    /\ hash_file.t = hash_file_at_start[p].t
    /\ hash_file.t = "str" => hash_file.v = hash_file_at_start[p].v

\* C1: in a run whose current hash differs from the stored one, save_hash has
\* completed before send_google_chat_notification is entered, and from there to
\* the end of the run the persisted hash is the current hash, whatever the
\* notification gives; only a run whose save failed ends without a notification
C1_SaveBeforeNotification ==
    \A p \in Procs :
        (Compared(p) /\ ~SameHash(p)) =>
            /\ (pc[p] \in {"notify", "report"} \/ Has(events[p], "notify")) =>
                 /\ Has(events[p], "save_hash")
                 /\ ~Has(events[p], "save_hash_failed")
                 /\ Has(events[p], "notify") => Precedes(events[p], "save_hash", "notify")
                 /\ ~Precedes(events[p], "notify", "save_hash")
                 /\ Persisted(current_hash[p].v)
            /\ pc[p] = "done" =>
                 Has(events[p], "notify") \/ Has(events[p], "save_hash_failed")

\* a run that found another stored hash, saved its own and got a transport
\* error from the webhook is over
C1_Witness ==
    \E p \in Procs :
        /\ pc[p] = "done"
        /\ last_hash[p] = PyStr("abc123")
        /\ Has(events[p], "post")
        /\ Has(stdout[p], "Warning: Could not send Google Chat notification")
        /\ Persisted(current_hash[p].v)

\* C2: in a run whose current hash equals the stored one the state file is
\* not written, no notification is attempted (no card, no post) and the run
\* reports no change and ends with exit code 0
C2_NoChangeNoWrite ==
    \A p \in Procs :
        (Compared(p) /\ SameHash(p)) =>
            /\ pc[p] = "done"
            /\ exit_code[p] = 0
            /\ FileUntouched(p)
            /\ \A e \in {"save_hash", "save_hash_failed", "notify", "post"} :
                 ~Has(events[p], e)
            /\ card_message[p] = None
            /\ Has(stdout[p], "No changes in source data detected. Skipping update.")
            /\ LastLine(p) = "NEEDS_UPDATE=false"

\* a run that computed the hash the state file holds is over
C2_Witness ==
    \E p \in Procs : pc[p] = "done" /\ Compared(p) /\ SameHash(p)

\* C3: once the notification step was entered the run is not aborted, whatever
\* the step gives (no webhook, a status that is not 200, an exception of the
\* post): it ends with exit code 0 and the marker NEEDS_UPDATE=true, the new
\* hash persisted
C3_NotificationNeverAborts ==
    \A p \in Procs :
        Has(events[p], "notify") =>
            /\ pc[p] \in {"report", "done"}
            /\ exit_code[p] = 0
            /\ Persisted(current_hash[p].v)
            /\ Has(stdout[p], ChangesDetected)
            /\ pc[p] = "done" => LastLine(p) = "NEEDS_UPDATE=true"

\* a run whose post came back with status 500 is over
C3_Witness ==
    \E p \in Procs :
        /\ pc[p] = "done"
        /\ Has(stdout[p], "Warning: Google Chat notification failed with status 500")

\* the run started without a state file and has its current hash
FirstRunFetched(p) == hash_file_at_start[p].t = "None" /\ Compared(p)

\* C4 as stated: a first run whose fetch succeeded always ends as change
\* detected, the state file created with the current hash and a notification
\* attempted
C4_Original ==
    \A p \in Procs :
        (FirstRunFetched(p) /\ pc[p] = "done") =>
            /\ exit_code[p] = 0
            /\ LastLine(p) = "NEEDS_UPDATE=true"
            /\ Persisted(current_hash[p].v)
            /\ Has(events[p], "notify")

\* C4, amended: a first run whose fetch succeeded always detects a change,
\* whatever was fetched; unless save_hash fails it ends with the state file
\* holding the current hash, a notification attempted and the marker true; if
\* save_hash fails it ends with a non-zero exit code and no notification
C4_FirstRunChangeDetected ==
    \A p \in Procs :
        FirstRunFetched(p) =>
            /\ ~SameHash(p)
            /\ Has(stdout[p], ChangesDetected)
            /\ (pc[p] = "done" /\ ~Has(events[p], "save_hash_failed")) =>
                 /\ exit_code[p] = 0
                 /\ LastLine(p) = "NEEDS_UPDATE=true"
                 /\ Persisted(current_hash[p].v)
                 /\ Has(events[p], "notify")
            /\ Has(events[p], "save_hash_failed") =>
                 /\ pc[p] = "done"
                 /\ exit_code[p] # 0
                 /\ ~Has(events[p], "notify")

\* a first run that found no worksheet at all is over, the file created
C4_Witness ==
    \E p \in Procs :
        /\ FirstRunFetched(p)
        /\ pc[p] = "done"
        /\ combined_content[p] = <<>>
        /\ hash_file.t = "str"
        /\ Has(events[p], "notify")

\* the run has read a required setting and found it missing or empty: the
\* spreadsheet id, the worksheet names, or (these two being there) the
\* credential string
MissingSetting(p) ==
    /\ pc[p] \notin {"idle", "main"}
    /\ \/ spreadsheet_id[p].t = "None"
       \/ spreadsheet_id[p] = PyStr("")
       \/ worksheets_env[p] = PyStr("")
       \/ /\ pc[p] # "get_credentials"
          /\ worksheets_env[p].t = "str"
          /\ credentials_path[p].t = "None" \/ credentials_path[p] = PyStr("")

\* C5: a run that finds a required setting missing or empty ends there with a
\* non-zero exit code: it has made no call to the spreadsheet service or the
\* webhook and the state file is as it was
C5_MissingSettingFatal ==
    \A p \in Procs :
        MissingSetting(p) =>
            /\ pc[p] = "done"
            /\ exit_code[p] # 0
            /\ events[p] = <<>>
            /\ card_message[p] = None
            /\ FileUntouched(p)

\* a run with its spreadsheet id and worksheet names and an empty credential
\* string is over
C5_Witness ==
    \E p \in Procs :
        /\ pc[p] = "done"
        /\ source_worksheets[p] # <<>>
        /\ credentials_path[p] = PyStr("")

\* C6: a run ends with exit code 0 and NEEDS_UPDATE=false as its last line
\* (the hashes equal), with exit code 0 and NEEDS_UPDATE=true as its last line
\* (the hashes differ, the save done), or with a non-zero exit code and no
\* marker line at all; the marker is true exactly when the hashes differed
C6_ThreeEndings ==
    \A p \in Procs :
        pc[p] = "done" =>
            /\ exit_code[p] = 0 =>
                 /\ Compared(p)
                 /\ LastLine(p) \in Markers
                 /\ Count(stdout[p], "NEEDS_UPDATE=true")
                        + Count(stdout[p], "NEEDS_UPDATE=false") = 1
                 /\ LastLine(p) = "NEEDS_UPDATE=true" <=> ~SameHash(p)
                 /\ LastLine(p) = "NEEDS_UPDATE=true" =>
                        Has(events[p], "save_hash") /\ Persisted(current_hash[p].v)
            /\ exit_code[p] # 0 =>
                 \A i \in DOMAIN stdout[p] : stdout[p][i] \notin Markers

\* a run that detected a change and could not save is over, without a marker
C6_Witness ==
    \E p \in Procs :
        /\ pc[p] = "done"
        /\ exit_code[p] = 1
        /\ Has(stdout[p], ChangesDetected)
        /\ Has(events[p], "save_hash_failed")

\* the worksheets the run did not find
Skipped(p) == Count(events[p], "worksheet_not_found")

\* C7: a worksheet that is not found is skipped and the loop goes on: a run
\* never ends on one, each name has either given an entry or been skipped when
\* the hash is returned, and with every name skipped the hash is the hash of
\* the empty list and the run goes on to load and compare
C7_MissingWorksheetSkipped ==
    \A p \in Procs :
        /\ pc[p] = "fetch" =>
             worksheet_index[p] = 1 + Len(combined_content[p]) + Skipped(p)
        /\ (pc[p] = "done" /\ events[p] # <<>>) =>
             events[p][Len(events[p])] # "worksheet_not_found"
        /\ (Compared(p) \/ pc[p] \in {"load_last_hash", "compare"}) =>
             /\ current_hash[p].t = "str"
             /\ Len(combined_content[p]) + Skipped(p) = Len(source_worksheets[p])
             /\ Skipped(p) = Len(source_worksheets[p]) =>
                  /\ combined_content[p] = <<>>
                  /\ current_hash[p] = PyStr(Md5HexDigest(Utf8Encode("[]")))

\* a run that was to watch two worksheets and found neither is at the
\* comparison
C7_Witness ==
    \E p \in Procs :
        /\ pc[p] = "compare"
        /\ Len(source_worksheets[p]) = 2
        /\ Skipped(p) = 2

\* the run has the hash get_source_data_hash returned
HashReturned(p) == pc[p] = "load_last_hash"

\* C8: the hash is a function of the entries of the worksheets found, in their
\* order, and of nothing else: two runs, with different spreadsheets and
\* credentials, return the same hash exactly when their combined contents are
\* the same sequence of (worksheet name, rows of cells)
C8_HashOfContent ==
    \A p, q \in Procs :
        (HashReturned(p) /\ HashReturned(q)) =>
            (current_hash[p] = current_hash[q]
                <=> combined_content[p] = combined_content[q])

\* two runs on different spreadsheets with different credentials have returned
\* their hashes: the one entry of each has the same worksheet name, the rows
\* are one row of two cells here and one row of one cell that reads like the
\* two there
C8_Witness ==
    \E p, q \in Procs :
        /\ HashReturned(p) /\ HashReturned(q)
        /\ spreadsheet_id[p] # spreadsheet_id[q]
        /\ credentials[p] # credentials[q]
        /\ Len(combined_content[p]) = 1
        /\ Len(combined_content[q]) = 1
        /\ combined_content[p][1].worksheet = combined_content[q][1].worksheet
        /\ combined_content[p][1].data = << <<"a", "b">> >>
        /\ combined_content[q][1].data = << <<"a', 'b">> >>
        /\ current_hash[p] # current_hash[q]

\* the credentials of a JSON value that is a mapping with the required
\* fields, None for any other
Usable(info) ==
    LET Made(c) == IF c.t = "Credentials" THEN c ELSE None
    IN  Made(FromServiceAccountInfo(info))

\* the three interpretations of a value, each giving the credentials of the
\* JSON it finds with the required fields, or None
AsRawJson(value) == Usable(ParseCredentials(value))

AsDecoded(decoded) ==
    LET Text(text) == IF text.ok THEN Usable(ParseCredentials(Strip(text.str))) ELSE None
    IN  IF decoded.ok THEN Text(Utf8Decode(decoded.bytes)) ELSE None

AsBase64(value) ==
    LET Second(first, cleaned) ==
            IF first.t # "None" THEN first ELSE AsDecoded(UrlsafeB64Decode(cleaned))
        First(cleaned) == Second(AsDecoded(B64Decode(cleaned)), cleaned)
    IN  IF RemoveWhitespace(value) = "" THEN None
        ELSE First(Padded(RemoveWhitespace(value)))

AsFilePath(value) ==
    IF FileText(value).t = "None" THEN None
    ELSE Usable(ParseCredentials(FileText(value).v))

\* the credentials of the first interpretation that succeeds, None when none
\* of the three does
FirstInterpretation(value) ==
    LET Third(found) == IF found.t # "None" THEN found ELSE AsFilePath(value)
        Second(found) == Third(IF found.t # "None" THEN found ELSE AsBase64(value))
    IN  Second(AsRawJson(value))

\* C9 as stated: two resolutions of forms of the same payload (the JSON, its
\* standard or URL-safe base64 encoding, the path of a file that holds it:
\* the same form twice, or two of them) both give credentials, and the same
C9_FormsEquivalent ==
    \A p, q \in Procs :
        \A payload \in Payloads :
            (/\ Resolved(p) /\ Resolved(q)
             /\ credentials_path[p].t = "str" /\ credentials_path[q].t = "str"
             /\ credentials_path[p].v \in FormsOf(payload)
             /\ credentials_path[q].v \in FormsOf(payload)) =>
                /\ credentials[p].t = "Credentials"
                /\ credentials[q].t = "Credentials"
                /\ credentials[p] = credentials[q]

\* C10 as stated: the resolver returns the credentials of the first of the
\* three interpretations (raw JSON, base64 of JSON, path of a file) that gives
\* JSON with the required fields, an interpretation that does not falling
\* through to the next, and fails only when none of the three succeeds
C10_FirstInterpretationWins ==
    \A p \in Procs :
        (Resolved(p) /\ credentials_path[p].t = "str" /\ credentials_path[p].v # "") =>
            LET Expected(found) ==
                    /\ credentials[p] = found
                    /\ pc[p] = "done" <=> found.t = "None"
            IN  Expected(FirstInterpretation(CredentialsValue(credentials_path[p].v)))

\* C11: a run whose save_hash could not complete the write is over with a
\* non-zero exit code: it detected a change, attempted no notification (no
\* call of the notifier, no card, no post) and printed no NEEDS_UPDATE marker
C11_SaveFailureFatal ==
    \A p \in Procs :
        Has(events[p], "save_hash_failed") =>
            /\ Has(stdout[p], ChangesDetected)
            /\ pc[p] = "done"
            /\ exit_code[p] # 0
            /\ LastLine(p) = "Error saving hash"
            /\ ~Has(events[p], "notify") /\ ~Has(events[p], "post")
            /\ card_message[p] = None
            /\ \A i \in DOMAIN stdout[p] : stdout[p][i] \notin Markers

\* a run that loaded another stored hash detected a change, and its write
\* failed half way: the run is over and the file cut short
C11_Witness ==
    \E p \in Procs :
        /\ pc[p] = "done"
        /\ last_hash[p] = PyStr("abc123")
        /\ Has(events[p], "save_hash_failed")
        /\ hash_file # hash_file_at_start[p]

\* the state file holds no stored hash: there is no file, its text is not
\* JSON, the JSON is not an object, or the object has no content_hash
NoStoredHash(file) ==
    LET Absent(stored) == stored.t \in {"raise", "None"}
    IN  file.t = "None" \/ Absent(StoredHash(file.v))

\* the run has called load_last_hash on a state file that holds no stored hash
LoadedNothing(p) ==
    Has(events[p], "load_last_hash") /\ NoStoredHash(hash_file_at_start[p])

\* C12 as stated: load_last_hash never ends the run, and on a state file that
\* holds no stored hash it returns None and the run ends as change detected,
\* the file overwritten with a record of the current hash and a notification
\* attempted
C12_Original ==
    \A p \in Procs :
        /\ Has(events[p], "load_last_hash") => Compared(p) \/ pc[p] = "compare"
        /\ LoadedNothing(p) =>
             /\ last_hash[p] = None
             /\ pc[p] = "done" =>
                  /\ exit_code[p] = 0
                  /\ LastLine(p) = "NEEDS_UPDATE=true"
                  /\ Persisted(current_hash[p].v)
                  /\ Has(events[p], "notify")

\* C12, amended: load_last_hash never ends the run, and on a state file that
\* holds no stored hash it returns None and the run goes on as a first run: it
\* detects a change, and unless save_hash fails it ends with the file holding
\* a record of the current hash, a notification attempted and the marker true;
\* if save_hash fails it ends with a non-zero exit code and no notification
C12_UnreadableAsFirstRun ==
    \A p \in Procs :
        /\ Has(events[p], "load_last_hash") => Compared(p) \/ pc[p] = "compare"
        /\ LoadedNothing(p) =>
             /\ last_hash[p] = None
             /\ Has(stdout[p], "First time check")
             /\ pc[p] # "compare" =>
                  /\ ~SameHash(p)
                  /\ Has(stdout[p], ChangesDetected)
             /\ (pc[p] = "done" /\ ~Has(events[p], "save_hash_failed")) =>
                  /\ exit_code[p] = 0
                  /\ LastLine(p) = "NEEDS_UPDATE=true"
                  /\ Persisted(current_hash[p].v)
                  /\ Has(events[p], "notify")
             /\ Has(events[p], "save_hash_failed") =>
                  /\ pc[p] = "done"
                  /\ exit_code[p] # 0
                  /\ ~Has(events[p], "notify")

\* a run that found a JSON list in the state file is over: the file now holds
\* its hash, and the notification was attempted
C12_Witness ==
    \E p \in Procs :
        /\ pc[p] = "done"
        /\ hash_file_at_start[p] = PyStr("[]")
        /\ Persisted(current_hash[p].v)
        /\ Has(events[p], "notify")

\* what get_source_data_hash prints when a call to the spreadsheet service
\* fails
FetchFailureLines ==
    {"Google Sheets API Error occurred", "Spreadsheet not found or access denied",
     "Error accessing spreadsheet data"}

\* a step of the fetch has failed in the run, for another reason than a
\* worksheet that was not found
FetchFailed(p) == \E line \in FetchFailureLines : Has(stdout[p], line)

\* C13: a run in which the authorization, the opening of the spreadsheet or
\* the reading of a worksheet failed is over with a non-zero exit code: the
\* state file is as it was, the stored hash was neither loaded nor compared,
\* nothing was saved and no notification attempted
C13_FetchFailureFatal ==
    \A p \in Procs :
        FetchFailed(p) =>
            /\ pc[p] = "done"
            /\ exit_code[p] # 0
            /\ FileUntouched(p)
            /\ current_hash[p] = None /\ last_hash[p] = None
            /\ \A e \in {"load_last_hash", "save_hash", "save_hash_failed",
                         "notify", "post"} : ~Has(events[p], e)
            /\ \A line \in {"First time check", "Previous check completed",
                            ChangesDetected,
                            "No changes in source data detected. Skipping update."} :
                 ~Has(stdout[p], line)
            /\ card_message[p] = None

\* a run that had read one worksheet got an API error on the next and is over
C13_Witness ==
    \E p \in Procs :
        /\ pc[p] = "done"
        /\ Len(combined_content[p]) = 1
        /\ Has(stdout[p], "Google Sheets API Error occurred")

\* the names the SOURCE_WORKSHEETS setting of the run lists, in its order:
\* the pieces between the commas, trimmed, the empty ones left out
ConfiguredNames(p) == StripNonEmpty(SplitComma(worksheets_env[p].v, 1, ""))

\* C14: the card of every notification that is posted names all the
\* worksheets of the SOURCE_WORKSHEETS setting, in the order of the setting,
\* whichever of them were found or skipped in the fetch
C14_AllNamesNotified ==
    \A p \in Procs :
        Has(events[p], "post") =>
            /\ card_message[p].t = "card"
            /\ card_message[p].sheets_list = JoinCommaSpace(ConfiguredNames(p))
            /\ Len(ConfiguredNames(p)) = Len(combined_content[p]) + Skipped(p)

\* a card was posted in a run that was to watch A and B and did not find one
\* of them: it names both
C14_Witness ==
    \E p \in Procs :
        /\ Has(events[p], "post")
        /\ Skipped(p) = 1
        /\ Len(combined_content[p]) = 1
        /\ card_message[p].sheets_list = "A, B"

\* an exception reached the except clause of main in the run
UnexpectedError(p) ==
    Has(stdout[p], "Unexpected error: GOOGLE_CREDENTIALS_PATH environment variable not set")

\* C15: a run in which an exception reached the top level of main is over
\* with a non-zero exit code, the error its last line (so no run has exit code
\* 0 after one), and every run that has started comes to its end
C15_UncaughtFatalAndTerminates ==
    /\ [](\A p \in Procs :
            UnexpectedError(p) =>
                /\ pc[p] = "done"
                /\ exit_code[p] # 0
                /\ LastLine(p) = "Unexpected error: GOOGLE_CREDENTIALS_PATH environment variable not set")
    /\ \A p \in Procs : Running(p) ~> (pc[p] = "done")

\* a run whose .env file was loaded and gave no credential setting is over:
\* the ValueError of get_credentials was caught by main
C15_Witness ==
    \E p \in Procs :
        /\ pc[p] = "done"
        /\ exit_code[p] = 1
        /\ UnexpectedError(p)
        /\ Has(stdout[p], "Loaded credentials from .env file")

\* the run ended as change detected
EndedChanged(p) ==
    pc[p] = "done" /\ exit_code[p] = 0 /\ LastLine(p) = "NEEDS_UPDATE=true"

\* run q is the run after run p and has compared its hashes: it had the same
\* list of worksheets and fetched the same content as run p, which ended as
\* change detected
SameContentAgain(p, q) ==
    /\ q = p + 1
    /\ EndedChanged(p)
    /\ Compared(q)
    /\ source_worksheets[q] = source_worksheets[p]
    /\ combined_content[q] = combined_content[p]

\* the run ends as no change, nothing saved and no notification attempted
NoChangeNoNotification(q) ==
    /\ SameHash(q)
    /\ \A e \in {"save_hash", "save_hash_failed", "notify", "post"} :
         ~Has(events[q], e)
    /\ card_message[q] = None
    /\ pc[q] = "done" /\ exit_code[q] = 0 /\ LastLine(q) = "NEEDS_UPDATE=false"

\* load_last_hash of the run could not read the state file
LoadFailed(q) == Has(stdout[q], "Warning: Could not load last hash")

\* C16 as stated: the run after a run that ended as change detected, with the
\* same worksheet list and the same content fetched, ends as no change and
\* attempts no notification, whatever became of the earlier notification
C16_Original ==
    \A p, q \in Procs : SameContentAgain(p, q) => NoChangeNoNotification(q)

\* C16, amended: the same, for a following run whose load_last_hash could read
\* the state file
C16_NoRepeatedNotification ==
    \A p, q \in Procs :
        (SameContentAgain(p, q) /\ ~LoadFailed(q)) => NoChangeNoNotification(q)

\* the post of the first run failed with a transport error; the spreadsheet
\* was as it had been when the second run fetched it, and that run is over
\* without a notification
C16_Witness ==
    \E p, q \in Procs :
        /\ SameContentAgain(p, q)
        /\ ~LoadFailed(q)
        /\ Has(stdout[p], "Warning: Could not send Google Chat notification")
        /\ Len(combined_content[q]) = 2
        /\ pc[q] = "done"
        /\ ~Has(events[q], "notify")

\* what load_last_hash gives on the state file as run p found it at its start
StoredAtStart(p) ==
    LET Value(stored) == IF stored.t = "raise" THEN None ELSE stored
    IN  IF hash_file_at_start[p].t = "None" THEN None
        ELSE Value(StoredHash(hash_file_at_start[p].v))

\* no other run than p and q has written the state file
OnlyWriters(p, q) ==
    \A r \in Procs \ {p, q} :
        ~Has(events[r], "save_hash") /\ ~Has(events[r], "save_hash_failed")

\* the content a fetch of the worksheets of run p would give now
RECURSIVE ContentOf(_, _)
ContentOf(sheet, names) ==
    IF names = <<>> THEN <<>>
    ELSE (IF sheet[Head(names)].t = "None" THEN <<>>
          ELSE <<[worksheet |-> Head(names), data |-> sheet[Head(names)].v]>>)
         \o ContentOf(sheet, Tail(names))

ContentNow(p) == ContentOf(sheets[spreadsheet_id[p].v], source_worksheets[p])

\* C17: load, compare and save are not one step.  Two runs that overlap have
\* both attempted a notification for the same hash (their loads did not fail,
\* no third run wrote the file) only by both loading, before either saved, the
\* stored hash that was there when they began; and of two runs that both
\* saved, the file holds the hash of the one that saved last, whichever of
\* them fetched last
C17_LoadCompareSaveNotAtomic ==
    \A p, q \in Procs :
        (p # q /\ OnlyWriters(p, q)) =>
            /\ (/\ Has(events[p], "notify") /\ Has(events[q], "notify")
                /\ current_hash[p] = current_hash[q]
                /\ ~LoadFailed(p) /\ ~LoadFailed(q)) =>
                    /\ last_hash[p] = last_hash[q]
                    /\ last_hash[p] = StoredAtStart(p)
                    /\ hash_file_at_start[p] = hash_file_at_start[q]
            /\ (Has(events[p], "save_hash") /\ Has(events[q], "save_hash")) =>
                    Persisted(current_hash[p].v) \/ Persisted(current_hash[q].v)

\* two runs had both loaded abc123 before either saved; both have saved and
\* attempted a notification and are over.  Run q fetched the worksheet as it
\* is now, run p fetched it before it was edited and saved last: the file
\* holds the hash of run p, not that of the content fetched last
C17_Witness ==
    \E p, q \in Procs :
        /\ p # q
        /\ pc[p] = "done" /\ pc[q] = "done"
        /\ last_hash[p] = PyStr("abc123") /\ last_hash[q] = PyStr("abc123")
        /\ Has(events[p], "notify") /\ Has(events[q], "notify")
        /\ combined_content[q] = ContentNow(q)
        /\ combined_content[p] # ContentNow(p)
        /\ current_hash[p] # current_hash[q]
        /\ Persisted(current_hash[p].v)
        /\ ~Persisted(current_hash[q].v)

\* two runs have both attempted a notification for the same hash, the hash
\* of the one change of the worksheet since abc123 was stored
C17_TwoNotifications ==
    \E p, q \in Procs :
        /\ p # q
        /\ Has(events[p], "post") /\ Has(events[q], "post")
        /\ current_hash[p] = current_hash[q]
        /\ last_hash[p] = PyStr("abc123") /\ last_hash[q] = PyStr("abc123")


\* the run has entered save_hash
SaveAttempted(p) ==
    Has(events[p], "save_hash") \/ Has(events[p], "save_hash_failed")

\* C18: runs that do not overlap.  After a run that ended with exit code 0
\* load_last_hash would return the hash the run computed: it was stored
\* already when the run ended as no change, and was saved when it ended as
\* change detected.  After a run that ended with another exit code without
\* entering save_hash the state file is as the run found it
C18_PersistedAfterRun ==
    \A p \in Procs :
        pc[p] = "done" =>
            /\ exit_code[p] = 0 =>
                /\ current_hash[p].t = "str"
                /\ Persisted(current_hash[p].v)
                /\ IF Has(stdout[p], ChangesDetected)
                   THEN Has(events[p], "save_hash")
                   ELSE SameHash(p) /\ FileUntouched(p) /\ ~SaveAttempted(p)
            /\ (exit_code[p] # 0 /\ ~SaveAttempted(p)) => FileUntouched(p)

\* a run found abc123 stored, detected a change, saved and ended with exit
\* code 0: the file now holds its hash and no longer abc123
C18_Witness ==
    \E p \in Procs :
        /\ pc[p] = "done" /\ exit_code[p] = 0
        /\ last_hash[p] = PyStr("abc123")
        /\ Has(events[p], "save_hash")
        /\ Persisted(current_hash[p].v)
        /\ ~FileUntouched(p)

\* a run that found abc123 stored ended with exit code 1 before save_hash
C18_FailedRun ==
    \E p \in Procs :
        /\ pc[p] = "done" /\ exit_code[p] # 0
        /\ ~SaveAttempted(p)
        /\ Persisted("abc123")


\* the settings of the run passed the checks of lines 253-261
PassedValidation(p) ==
    Has(stdout[p], "Checking for changes in source worksheets...")

\* C19: in a run whose settings passed the checks of main the parsed list of
\* worksheet names is not empty, and get_source_data_hash is never under
\* way, nor has returned a hash, with an empty list
C19_WorksheetListNonEmpty ==
    \A p \in Procs :
        /\ PassedValidation(p) => source_worksheets[p] # <<>>
        /\ (pc[p] = "fetch" \/ current_hash[p].t = "str") =>
               source_worksheets[p] # <<>>

\* SOURCE_WORKSHEETS="," passed the checks; the fetch ran over no worksheet
\* at all and the hash of the empty list was returned
C19_FetchedNothing ==
    \E p \in Procs :
        /\ PassedValidation(p)
        /\ worksheets_env[p] = PyStr(",")
        /\ source_worksheets[p] = <<>>
        /\ Has(events[p], "open_by_key")
        /\ current_hash[p].t = "str"


\* what load_last_hash would return now
StoredNow ==
    LET Value(stored) == IF stored.t = "raise" THEN None ELSE stored
    IN  IF hash_file.t = "None" THEN None ELSE Value(StoredHash(hash_file.v))

\* after save_hash returned, and until the run is over, the state file is
\* the record whose one field content_hash is the hash of the run
C20_SavedWholesale ==
    \A p \in Procs :
        Has(events[p], "save_hash") =>
            /\ hash_file = PyStr(HashFileText(current_hash[p].v))
            /\ Persisted(current_hash[p].v)

\* C20: save_hash replaces the record wholesale, and a save that failed left
\* no partial state: load_last_hash returns what it would have returned when
\* the run began
C20_FailedSaveKeepsPrevious ==
    /\ C20_SavedWholesale
    /\ \A p \in Procs :
        Has(events[p], "save_hash_failed") => StoredNow = StoredAtStart(p)

\* abc123 was stored, save_hash failed in the write, and the file, opened
\* for writing and cut short, gives load_last_hash nothing
C20_PartialState ==
    \E p \in Procs :
        /\ pc[p] = "done"
        /\ Has(events[p], "save_hash_failed")
        /\ StoredAtStart(p) = PyStr("abc123")
        /\ hash_file.t = "str"
        /\ StoredNow = None

=============================================================================
